---- MODULE Spec2Model ----
(***************************************************************************)
(* A model of debootstrap.py: the virtual Filesystem (path                 *)
(* canonicalisation and merge on add), the gpgv status parser, the         *)
(* repository client, the package downloader and the HTTP fetcher.         *)
(*                                                                         *)
(* Paths are sequences of components: "usr/bin/tool" is                    *)
(* <<"usr","bin","tool">>, the empty string is <<>>, and an absolute path  *)
(* starts with the component "/" ("/usr/bin" is <<"/","usr","bin">>).      *)
(***************************************************************************)
EXTENDS Integers, Sequences, FiniteSets, TLC

VARIABLES
    _files,     \* Filesystem._files: canonical name -> (TarInfo, fileobj)
    fsErr,      \* the exception that left Filesystem.add, if any
    nops,       \* number of Filesystem operations called so far
    last,       \* the last Filesystem.add call: entry as passed, canonical name, outcome
    deb_names,  \* create_filesystem: the packages download_files has still to emit
    unpacked,   \* create_filesystem: the packages unpacked and added, in order
    stdout,     \* _gpg_verify: the status stream gpgv writes (p.stdout)
    lineno,     \* _gpg_verify: lines of p.stdout read so far
    ret,        \* _gpg_verify: the accumulator, opcode -> rest
    sig_info,   \* gpg_verify: how _gpg_verify and gpg_verify ended
    conns,      \* fetch_http: threadlocals.conns, the netlocs that have a connection
    url,        \* fetch_http: (netloc, path) of the current call
    follow_redirects,   \* fetch_http: the argument of the current call
    requests,   \* fetch_http: the requests sent during this fetch, in order
    disconnects,        \* RemoteDisconnected raised by getresponse so far
    response,   \* fetch_http: "send"/"wait" while it runs, then what it returned or raised
    upstream,   \* per suite, what the mirror serves: Release, Release.gpg, Packages
    cache,      \* the files under CACHE_PATH: <<suite, file>> -> bytes
    pc,         \* per suite, where its get_packages worker stands
    release,    \* per suite, the bytes download_cached returned for Release
    release_gpg,        \* per suite, the bytes returned for Release.gpg
    fetched,    \* per suite, the paths downloaded through its repo_fetch
    repo_contents,      \* per suite, the bytes repo_fetch returned (contents)
    parsed,     \* per suite, the bytes handed to packages_dict
    phase,      \* build_os: "index", then "aborted", or "resolved", "create"
    started,    \* build_os: the packages whose .deb download was started
    disk,       \* download_files: destination -> bytes of the cached .deb files
    served,     \* download_files: package -> bytes the mirror sends for its .deb
    todo,       \* download_files: the packages the first loop has still to visit
    futures,    \* download_files: package -> state of its download_file future
    emitted,    \* download_files: the destinations yielded so far, in order
    dlErr,      \* download_files: the exception that ended it, if any
    dest,       \* download_cached: the destination file, [exists, bytes, mtime]
    writer,     \* download_cached: where the worker that got a 200 stands, and its r
    observed,   \* what another worker or run saw of the destination, last
    artifact,   \* successive runs: the file they fetch, a repository index or a .deb
    kept,       \* successive runs: what is under its cache path, <<>> or <<bytes>>
    runlog,     \* successive runs: per run, where the bytes came from and how it ended
    indexes,    \* get_all_packages_info: per suite, the dict its get_packages returns
    finished,   \* get_all_packages_info: the suites whose worker returned, in that order
    packages_info,     \* get_all_packages_info: ret
    collected,  \* get_all_packages_info: futures whose result was merged so far
    exported,   \* output_filter: the whole stream docker export writes, in blocks
    in_fh,      \* output_filter: the blocks of it not read yet
    out_fh,     \* output_filter: the blocks written so far
    filtering,  \* output_filter: "loop", then "flushed"
    packages_index,\* get_needed_packages: packages_info, name -> record
    required,   \* get_needed_packages: required
    unprocessed,\* get_needed_packages: unprocessed
    needed,     \* get_needed_packages: <<>> while it runs, then <<ret>>
    at_step,    \* build_os: the statement the build is at
    launched,   \* the docker subcommands started, in order
    statuses,   \* the exit statuses waited for, in order
    docker_output,\* second_stage: the container output buffered
    dumped,     \* what was written to stderr from docker_output
    dir_names,  \* the working directory: name -> inode
    inode_bytes,\* inode -> bytes on disk
    buffered,   \* out_fh: bytes written and not yet flushed
    hashed,     \* hasher: every byte written through it
    printed,    \* the lines on stdout
    deb,        \* unpack_ar: the members of the .deb, in ar order
    ar_rest,    \* unpack_ar: the ar members whose header is still to be read
    tf_rest,    \* unpack_ar: the members of the open data.tar still to come
    dpkg_rest,  \* unpack_ar: what _dpkg_info_files has still to yield
    dpkg_prefix,\* unpack_ar: prefix, <<>> for None
    manifest,   \* unpack_ar: files, the lines of the .list so far
    yielded,    \* unpack_ar: the items yielded so far, in order
    ar_at,      \* unpack_ar: where the generator stands
    index_lines,\* packages_dict: the lines of the index, <<>> for a blank line
    unread,     \* packages_dict: the lines the loop has still to read
    package,    \* packages_dict: the stanza being collected
    pd_ret,     \* packages_dict: ret, name -> record
    pd_at,      \* packages_dict: "loop", then "returned" or "raised KeyError"
    wi_names,   \* write_image: the names of sorted(files) still to be written
    wi_out,     \* write_image: the blocks written to out_fh
    wi_at       \* write_image: "call", "loop", then "returned"

fsVars == <<_files, fsErr, nops, last>>
createVars == <<deb_names, unpacked>>
gpgVars == <<stdout, lineno, ret, sig_info>>
httpVars == <<conns, url, follow_redirects, requests, disconnects, response>>
repoVars == <<upstream, cache, pc, release, release_gpg, fetched, repo_contents, parsed,
              phase, started>>
dlVars == <<disk, served, todo, futures, emitted, dlErr>>
cwVars == <<dest, writer, observed>>
rrVars == <<artifact, kept, runlog>>
mgVars == <<indexes, finished, packages_info, collected>>
ofVars == <<exported, in_fh, out_fh, filtering>>
npVars == <<packages_index, required, unprocessed, needed>>
boVars == <<at_step, launched, statuses, docker_output, dumped, dir_names, inode_bytes, buffered, hashed, printed>>
arVars == <<deb, ar_rest, tf_rest, dpkg_rest, dpkg_prefix, manifest, yielded, ar_at>>
pdVars == <<index_lines, unread, package, pd_ret, pd_at>>
wiVars == <<wi_names, wi_out, wi_at>>
vars == <<fsVars, createVars, gpgVars, httpVars, repoVars,
          dlVars, cwVars, rrVars, mgVars, ofVars,
          npVars, boVars, arVars, pdVars, wiVars>>

\* the components that follow, together, and what each leaves alone
laterVars == <<cwVars, rrVars, mgVars, ofVars, npVars, boVars, arVars, pdVars, wiVars>>
notWi == <<createVars, gpgVars, httpVars, repoVars, dlVars, cwVars, rrVars, mgVars, ofVars, npVars, boVars, arVars, pdVars>>
notPd == <<createVars, gpgVars, httpVars, repoVars, dlVars, cwVars, rrVars, mgVars, ofVars, npVars, boVars, arVars, wiVars>>
notAr == <<createVars, gpgVars, httpVars, repoVars, dlVars, cwVars, rrVars, mgVars, ofVars, npVars, boVars, pdVars, wiVars>>
notBo == <<createVars, gpgVars, httpVars, repoVars, dlVars, cwVars, rrVars, mgVars, ofVars, npVars, arVars, pdVars, wiVars>>
notNp == <<createVars, gpgVars, httpVars, repoVars, dlVars, cwVars, rrVars, mgVars, ofVars, boVars, arVars, pdVars, wiVars>>
notOf == <<createVars, gpgVars, httpVars, repoVars, dlVars, cwVars, rrVars, mgVars, npVars, boVars, arVars, pdVars, wiVars>>
notMg == <<createVars, gpgVars, httpVars, repoVars, dlVars, cwVars, rrVars, ofVars, npVars, boVars, arVars, pdVars, wiVars>>
notRr == <<createVars, gpgVars, httpVars, repoVars, dlVars, cwVars, mgVars, ofVars, npVars, boVars, arVars, pdVars, wiVars>>
notCw == <<createVars, gpgVars, httpVars, repoVars, dlVars, rrVars, mgVars, ofVars, npVars, boVars, arVars, pdVars, wiVars>>

\* what the steps of one component leave alone
notFs == <<createVars, gpgVars, httpVars, repoVars, dlVars, laterVars>>
notCreate == <<gpgVars, httpVars, repoVars, dlVars, laterVars>>
notGpg == <<fsVars, createVars, httpVars, repoVars, dlVars, laterVars>>
notHttp == <<fsVars, createVars, gpgVars, repoVars, dlVars, laterVars>>
notRepo == <<createVars, gpgVars, httpVars, dlVars, laterVars>>
notDl == <<fsVars, createVars, gpgVars, httpVars, repoVars, laterVars>>

----------------------------------------------------------------------------
(* Bounds *)

MaxOps == 3             \* Filesystem operations per behaviour
MaxDebs == 3            \* packages of one build
MaxLines == 4           \* lines of one gpgv status stream
MaxDisconnects == 3     \* times the server drops the connection during one fetch
MaxRuns == 3            \* successive runs of the build over one cache
MaxEntries == 3         \* members of one exported tar stream

----------------------------------------------------------------------------
(* tarfile constants and TarInfo *)

REGTYPE == "0"
SYMTYPE == "2"
CHRTYPE == "3"
DIRTYPE == "5"

TarInfo(name) ==
    [name |-> name, mode |-> 420, uid |-> 0, gid |-> 0, size |-> 0, mtime |-> 0,
     type |-> REGTYPE, linkname |-> <<>>, uname |-> "", gname |-> "",
     devmajor |-> 0, devminor |-> 0, pax_headers |-> <<>>]

NoError == [kind |-> "none", arg |-> <<>>]
RuntimeError(arg) == [kind |-> "RuntimeError", arg |-> arg]
RecursionError == [kind |-> "RecursionError", arg |-> <<>>]
IncompleteRead == [kind |-> "IncompleteRead", arg |-> <<>>]

Max(a, b) == IF a >= b THEN a ELSE b

Range(f) == {f[i] : i \in DOMAIN f}

\* the orders in which the members of S can come
Orders(S) ==
    {o \in [1..Cardinality(S) -> S] : \A i, j \in DOMAIN o : o[i] = o[j] => i = j}

----------------------------------------------------------------------------
(* os.path on component sequences *)

Front(s) == SubSeq(s, 1, Len(s) - 1)

IsAbs(p) == p # <<>> /\ p[1] = "/"

\* posixpath.join(a, b): an absolute b replaces a
join(a, b) == IF IsAbs(b) THEN b ELSE a \o b

\* posixpath.dirname
dirname(p) == IF p = <<"/">> THEN p ELSE IF p = <<>> THEN <<>> ELSE Front(p)

RECURSIVE normcomps(_, _, _)
normcomps(abs, comps, acc) ==
    IF comps = <<>> THEN acc
    ELSE LET c == Head(comps)
             rest == Tail(comps)
         IN  IF c = "" \/ c = "." THEN normcomps(abs, rest, acc)
             ELSE IF c # ".." \/ (~abs /\ acc = <<>>)
                      \/ (acc # <<>> /\ acc[Len(acc)] = "..")
                  THEN normcomps(abs, rest, Append(acc, c))
             ELSE IF acc # <<>> THEN normcomps(abs, rest, Front(acc))
             ELSE normcomps(abs, rest, acc)

\* posixpath.normpath: "." and "" dropped, ".." folded, the empty result is "."
normpath(p) ==
    LET abs == IsAbs(p)
        out == normcomps(abs, IF abs THEN Tail(p) ELSE p, <<>>)
    IN  IF abs THEN <<"/">> \o out
        ELSE IF out = <<>> THEN <<".">> ELSE out

----------------------------------------------------------------------------
(* Filesystem *)

\* The value resolve's unbounded recursion ends in: Python's RecursionError.
Unresolved == <<"<RecursionError>">>

\* Filesystem.resolve. A chain of more symlinks than the Filesystem stores
\* revisits one of them, so it never ends: fuel = number of stored entries.
RECURSIVE resolveFrom(_, _, _)
resolveFrom(fs, name, fuel) ==
    IF name \notin DOMAIN fs THEN name
    ELSE IF fs[name].info.type # SYMTYPE THEN name
    ELSE IF fuel = 0 THEN Unresolved
    ELSE resolveFrom(fs,
                     normpath(join(dirname(name), fs[name].info.linkname)),
                     fuel - 1)

resolve(fs, name) == resolveFrom(fs, name, Cardinality(DOMAIN fs))

\* Filesystem._build_path: resolve every successive prefix, left to right
RECURSIVE buildFrom(_, _, _)
buildFrom(fs, sofar, components) ==
    IF components = <<>> THEN sofar
    ELSE LET r == resolve(fs, join(sofar, <<Head(components)>>))
         IN  IF r = Unresolved THEN Unresolved
             ELSE buildFrom(fs, r, Tail(components))

_build_path(fs, name) == buildFrom(fs, <<>>, name)

\* extract_useful without the mode: a merge that no longer sees a mode change
extract_useful_nomode(ti) ==
    <<ti.name, ti.uid, ti.gid, ti.size, ti.type, ti.uname, ti.gname,
      ti.pax_headers>>

extract_useful(ti) ==
    <<ti.name, ti.mode, ti.uid, ti.gid, ti.size, ti.type, ti.uname, ti.gname,
      ti.pax_headers>>

\* the merge keeping the mtime of the last add instead of the larger one
MergedMtime_last(existing, ti) == ti.mtime

\* The mtime add leaves on the stored entry when the name is already stored
MergedMtime(existing, ti) == Max(existing.mtime, ti.mtime)

\* Filesystem.add(ti, fileobj): the Filesystem after the call, the exception
\* raised, the canonical name and what happened.
add(fs, ti0, fileobj) ==
    LET name == _build_path(fs, ti0.name)
        ti == [ti0 EXCEPT !.name = name, !.uname = "", !.gname = ""]
    IN  IF name = Unresolved
        THEN [files |-> fs, err |-> RecursionError, name |-> name,
              outcome |-> "recursion"]
        ELSE IF name \in DOMAIN fs
        THEN LET existing == fs[name].info
                 merged == [fs EXCEPT ![name].info.mtime = MergedMtime(existing, ti)]
             IN  IF extract_useful(ti) # extract_useful(merged[name].info)
                 THEN [files |-> merged, err |-> RuntimeError(ti.name),
                       name |-> name, outcome |-> "conflict"]
                 ELSE [files |-> merged, err |-> NoError, name |-> name,
                       outcome |-> "merged"]
        ELSE IF name = <<>>
        THEN [files |-> fs, err |-> NoError, name |-> name, outcome |-> "dropped"]
        ELSE [files |-> (name :> [info |-> ti, fh |-> fileobj]) @@ fs,
              err |-> NoError, name |-> name, outcome |-> "stored"]

\* Filesystem.mkdir / symlink / file / mknod build a TarInfo and call add
\* (file's optional mode is <<>> for None, <<m>> otherwise)
mkdirInfo(name) == [TarInfo(name) EXCEPT !.type = DIRTYPE, !.mode = 493]
symlinkInfo(name, target) ==
    [TarInfo(name) EXCEPT !.type = SYMTYPE, !.linkname = target]
fileInfo(name, contents, mode) ==
    [TarInfo(name) EXCEPT !.size = Len(contents),
                          !.mode = IF mode = <<>> THEN 420 ELSE mode[1]]
mknodInfo(name, major, minor) ==
    [TarInfo(name) EXCEPT !.type = CHRTYPE, !.devmajor = major, !.devminor = minor]

----------------------------------------------------------------------------
(* Inputs of the Filesystem operations *)

BIN == <<"bin">>
LIB == <<"lib">>
USRBIN == <<"usr", "bin">>
BINTOOL == <<"bin", "tool">>
USRBINTOOL == <<"usr", "bin", "tool">>

DirNames == {USRBIN, BIN}
LinkNames == {BIN, LIB}
FileNames == {BINTOOL, USRBINTOOL, <<>>}
Targets == {USRBIN, BIN, LIB, <<"/", "usr", "bin">>}
Contents == {<<>>, <<1>>, <<2>>}
Mtimes == {1, 2}

\* data.tar members as unpack_ar hands them to add
TarMembers ==
    {[TarInfo(n) EXCEPT !.mode = m, !.mtime = t, !.size = Len(c)] :
        n \in {BINTOOL}, m \in {420, 493}, t \in Mtimes, c \in {<<1>>}}
    \cup {[mkdirInfo(n) EXCEPT !.mtime = t, !.uname = "root", !.gname = "root"] :
        n \in DirNames, t \in Mtimes}
    \cup {[symlinkInfo(n, l) EXCEPT !.mode = 511, !.mtime = t] :
        n \in LinkNames, l \in {USRBIN, BIN}, t \in {1}}
    \cup {[TarInfo(USRBINTOOL) EXCEPT !.uid = 1, !.gid = 1, !.size = 1, !.mtime = 1]}

BodyOf(ti) == IF ti.type = REGTYPE /\ ti.size = 1 THEN {<<1>>, <<2>>} ELSE {<<>>}

----------------------------------------------------------------------------
(* The Filesystem under arbitrary calls *)

NoCall == [ti |-> TarInfo(<<>>), fh |-> <<>>, name |-> <<>>, outcome |-> "none"]

EmptyFs ==
    /\ _files = <<>>
    /\ fsErr = NoError
    /\ nops = 0
    /\ last = NoCall

IdleCreate == deb_names = {} /\ unpacked = <<>>

IdleGpg == stdout = <<>> /\ lineno = 0 /\ ret = <<>> /\ sig_info = "idle"

IdleHttp ==
    /\ conns = {} /\ url = <<>> /\ follow_redirects = 0
    /\ requests = <<>> /\ disconnects = 0 /\ response = <<"idle">>

IdleRepo ==
    /\ upstream = <<>> /\ cache = <<>> /\ pc = <<>> /\ release = <<>>
    /\ release_gpg = <<>> /\ fetched = <<>> /\ repo_contents = <<>> /\ parsed = <<>>
    /\ phase = "idle" /\ started = {}

IdleDl ==
    /\ disk = <<>> /\ served = <<>> /\ todo = <<>> /\ futures = <<>>
    /\ emitted = <<>> /\ dlErr = NoError

\* the components that follow, before they run
IdleCw ==
    /\ dest = <<>> /\ writer = <<>> /\ observed = <<>>

IdleRr ==
    /\ artifact = "none" /\ kept = <<>> /\ runlog = <<>>

IdleMg ==
    /\ indexes = <<>> /\ finished = <<>> /\ packages_info = <<>> /\ collected = 0

IdleOf ==
    /\ exported = <<>> /\ in_fh = <<>> /\ out_fh = <<>> /\ filtering = "idle"

IdleNp ==
    /\ packages_index = <<>> /\ required = {} /\ unprocessed = {} /\ needed = <<>>

IdleBo ==
    /\ at_step = "idle" /\ launched = <<>> /\ statuses = <<>> /\ docker_output = <<>>
    /\ dumped = <<>> /\ dir_names = <<>> /\ inode_bytes = <<>> /\ buffered = <<>>
    /\ hashed = <<>> /\ printed = <<>>

IdleAr ==
    /\ deb = <<>> /\ ar_rest = <<>> /\ tf_rest = <<>> /\ dpkg_rest = <<>>
    /\ dpkg_prefix = <<>> /\ manifest = <<>> /\ yielded = <<>> /\ ar_at = "idle"

IdlePd ==
    /\ index_lines = <<>> /\ unread = <<>> /\ package = <<>> /\ pd_ret = <<>>
    /\ pd_at = "idle"

IdleWi ==
    /\ wi_names = <<>> /\ wi_out = <<>> /\ wi_at = "idle"

IdleLater == IdleCw /\ IdleRr /\ IdleMg /\ IdleOf /\ IdleNp /\ IdleBo /\ IdleAr /\ IdlePd /\ IdleWi

IdleEarlier == IdleCreate /\ IdleGpg /\ IdleHttp /\ IdleRepo /\ IdleDl

IdleButCw == IdleEarlier /\ IdleRr /\ IdleMg /\ IdleOf /\ IdleNp /\ IdleBo /\ IdleAr /\ IdlePd /\ IdleWi

IdleButRr == IdleEarlier /\ IdleCw /\ IdleMg /\ IdleOf /\ IdleNp /\ IdleBo /\ IdleAr /\ IdlePd /\ IdleWi

IdleButMg == IdleEarlier /\ IdleCw /\ IdleRr /\ IdleOf /\ IdleNp /\ IdleBo /\ IdleAr /\ IdlePd /\ IdleWi

IdleButOf == IdleEarlier /\ IdleCw /\ IdleRr /\ IdleMg /\ IdleNp /\ IdleBo /\ IdleAr /\ IdlePd /\ IdleWi

IdleButNp == IdleEarlier /\ IdleCw /\ IdleRr /\ IdleMg /\ IdleOf /\ IdleBo /\ IdleAr /\ IdlePd /\ IdleWi

IdleButBo == IdleEarlier /\ IdleCw /\ IdleRr /\ IdleMg /\ IdleOf /\ IdleNp /\ IdleAr /\ IdlePd /\ IdleWi

IdleButAr == IdleEarlier /\ IdleCw /\ IdleRr /\ IdleMg /\ IdleOf /\ IdleNp /\ IdleBo /\ IdlePd /\ IdleWi

IdleButPd == IdleEarlier /\ IdleCw /\ IdleRr /\ IdleMg /\ IdleOf /\ IdleNp /\ IdleBo /\ IdleAr /\ IdleWi

IdleButWi == IdleEarlier /\ IdleCw /\ IdleRr /\ IdleMg /\ IdleOf /\ IdleNp /\ IdleBo /\ IdleAr /\ IdlePd

InitFs ==
    EmptyFs /\ IdleCreate /\ IdleGpg /\ IdleHttp /\ IdleRepo /\ IdleDl /\ IdleLater

\* One call of add; the exception, when there is one, ends the build.
DoAdd(ti, fileobj) ==
    /\ fsErr = NoError
    /\ nops < MaxOps
    /\ LET r == add(_files, ti, fileobj)
       IN  /\ _files' = r.files
           /\ fsErr' = r.err
           /\ last' = [ti |-> ti, fh |-> fileobj, name |-> r.name,
                       outcome |-> r.outcome]
    /\ nops' = nops + 1
    /\ UNCHANGED notFs

Add == \E ti \in TarMembers : \E c \in BodyOf(ti) : DoAdd(ti, c)
Mkdir == \E n \in DirNames : DoAdd(mkdirInfo(n), <<>>)
Symlink == \E n \in LinkNames, t \in Targets : DoAdd(symlinkInfo(n, t), <<>>)
File == \E n \in FileNames, c \in Contents, m \in {<<>>, <<493>>} :
            DoAdd(fileInfo(n, c, m), c)
Mknod == \E n \in {<<"dev", "null">>} : DoAdd(mknodInfo(n, 1, 3), <<>>)

NextFs == Add \/ Mkdir \/ Symlink \/ File \/ Mknod

SpecFs == InitFs /\ [][NextFs]_vars

----------------------------------------------------------------------------
(* create_filesystem: the seed entries, then every package download_files  *)
(* emits, in the order it emits them                                       *)

\* A run of add calls, stopped by the first exception
RECURSIVE addAll(_, _)
addAll(r, members) ==
    IF members = <<>> \/ r.err # NoError THEN r
    ELSE addAll(add(r.files, members[1].ti, members[1].fh), Tail(members))

Started(fs) == [files |-> fs, err |-> NoError, name |-> <<>>, outcome |-> "none"]

SeedNames == <<"bin", "sbin", "lib", "lib32", "lib64", "libx32">>

\* the rendered second-stage script: SECOND_STAGE, one line per suite, THIRD_STAGE
InitScript == <<"SECOND_STAGE", "ADD_SOURCES_LIST", "THIRD_STAGE">>

RECURSIVE seedMembers(_)
seedMembers(names) ==
    IF names = <<>> THEN <<>>
    ELSE <<[ti |-> mkdirInfo(<<"usr", Head(names)>>), fh |-> <<>>],
           [ti |-> symlinkInfo(<<Head(names)>>, <<"usr", Head(names)>>), fh |-> <<>>]>>
         \o seedMembers(Tail(names))

\* create_filesystem up to its loop over the packages
Seeded ==
    addAll(Started(<<>>),
           <<[ti |-> fileInfo(<<"init">>, InitScript, <<493>>), fh |-> InitScript]>>
           \o seedMembers(SeedNames))

\* the members get_unpacked_files yields for each package
reg(n, m, t, c) ==
    [ti |-> [TarInfo(n) EXCEPT !.mode = m, !.mtime = t, !.size = Len(c)], fh |-> c]
lnk(n, l, t) ==
    [ti |-> [symlinkInfo(n, l) EXCEPT !.mode = 511, !.mtime = t], fh |-> <<>>]
dir(n, t) == [ti |-> [mkdirInfo(n) EXCEPT !.mtime = t], fh |-> <<>>]

Debs ==
    [coreutils |-> <<dir(USRBIN, 1), reg(BINTOOL, 493, 1, <<1>>)>>,
     busybox   |-> <<dir(USRBIN, 2), reg(USRBINTOOL, 493, 2, <<2>>)>>,
     toybox    |-> <<reg(BINTOOL, 420, 1, <<1>>)>>,
     optlink   |-> <<lnk(<<"opt">>, <<"usr">>, 1)>>,
     optfile   |-> <<dir(<<"opt", "bin">>, 1), reg(<<"opt", "bin", "tool">>, 493, 1, <<1>>)>>,
     libc      |-> <<dir(<<"usr", "lib">>, 3), reg(<<"lib", "ld">>, 493, 3, <<1, 2>>)>>]

InitCreate ==
    /\ EmptyFs
    /\ IdleGpg /\ IdleHttp /\ IdleRepo /\ IdleDl /\ IdleLater
    /\ unpacked = <<>>
    /\ deb_names \in {S \in SUBSET DOMAIN Debs : Cardinality(S) <= MaxDebs}

\* fs = Filesystem(); fs.file("init", ...); the six mkdir/symlink pairs
CreateSeed ==
    /\ _files = <<>>
    /\ _files' = Seeded.files
    /\ fsErr' = Seeded.err
    /\ UNCHANGED <<nops, last, deb_names, unpacked>>
    /\ UNCHANGED notCreate

\* one package emitted by download_files: every member is added
UnpackDeb ==
    /\ _files # <<>>
    /\ fsErr = NoError
    /\ \E d \in deb_names :
        LET r == addAll(Started(_files), Debs[d])
        IN  /\ _files' = r.files
            /\ fsErr' = r.err
            /\ deb_names' = deb_names \ {d}
            /\ unpacked' = Append(unpacked, d)
    /\ UNCHANGED <<nops, last>>
    /\ UNCHANGED notCreate

NextCreate == CreateSeed \/ UnpackDeb

\* create_filesystem as a whole, for one order of emission
RECURSIVE unpackAll(_, _)
unpackAll(r, order) ==
    IF order = <<>> \/ r.err # NoError THEN r
    ELSE unpackAll(addAll(r, Debs[Head(order)]), Tail(order))

create_filesystem(order) == unpackAll(Seeded, order)

SpecCreate == InitCreate /\ [][NextCreate]_vars

----------------------------------------------------------------------------
(* _gpg_verify and gpg_verify: the parser of gpgv's status stream.  A line *)
(* is [prefix, op]: whether it starts with GNUPG_PREFIX, and the           *)
(* whitespace-separated words of what follows the prefix.                  *)

statusLine(op) == [prefix |-> TRUE, op |-> op]

StatusLines ==
    {statusLine(<<"NEWSIG">>), statusLine(<<"NEWSIG", "signer@example.org">>),
     statusLine(<<"GOODSIG", "KEYID", "Archive", "Key">>),
     statusLine(<<"VALIDSIG", "FPR">>), statusLine(<<"BADSIG", "KEYID">>),
     statusLine(<<"BADARMOR">>),
     [prefix |-> FALSE, op |-> <<"gpgv:", "note">>]}

RECURSIVE SeqsUpTo(_, _)
SeqsUpTo(S, n) ==
    IF n = 0 THEN {<<>>}
    ELSE LET shorter == SeqsUpTo(S, n - 1)
         IN  shorter \cup {Append(q, x) : q \in {r \in shorter : Len(r) = n - 1}, x \in S}

good_to_return(acc) == "GOODSIG" \in DOMAIN acc /\ "VALIDSIG" \in DOMAIN acc

\* op == b"NEWSIG"
IsNewsig(op) == op = <<"NEWSIG">>

\* the body of the loop over p.stdout, for one line: the accumulator after
\* it and whether the loop goes on, returns ret, or op.split raises
readLine(acc, line) ==
    IF ~line.prefix THEN [ret |-> acc, out |-> "continue"]
    ELSE IF IsNewsig(line.op)
    THEN IF good_to_return(acc) THEN [ret |-> acc, out |-> "return"]
         ELSE [ret |-> <<>>, out |-> "continue"]
    ELSE IF Len(line.op) < 2 THEN [ret |-> acc, out |-> "ValueError"]
    ELSE [ret |-> (line.op[1] :> Tail(line.op)) @@ acc, out |-> "continue"]

\* _gpg_verify on a whole stream: "return" with the accumulator, "None",
\* or "ValueError"
RECURSIVE parseFrom(_, _)
parseFrom(acc, lines) ==
    IF lines = <<>>
    THEN [ret |-> acc, out |-> IF good_to_return(acc) THEN "return" ELSE "None"]
    ELSE LET r == readLine(acc, Head(lines))
         IN  IF r.out = "continue" THEN parseFrom(r.ret, Tail(lines)) ELSE r

_gpg_verify(lines) == parseFrom(<<>>, lines)

InitGpg ==
    /\ EmptyFs /\ IdleCreate /\ IdleHttp /\ IdleRepo /\ IdleDl /\ IdleLater
    /\ stdout \in SeqsUpTo(StatusLines, MaxLines)
    /\ lineno = 0
    /\ ret = <<>>
    /\ sig_info = "reading"

\* for line in p.stdout: one line
GpgReadLine ==
    /\ sig_info = "reading"
    /\ lineno < Len(stdout)
    /\ LET r == readLine(ret, stdout[lineno + 1])
       IN  /\ ret' = r.ret
           /\ sig_info' = IF r.out = "continue" THEN "reading" ELSE r.out
    /\ lineno' = lineno + 1
    /\ UNCHANGED stdout
    /\ UNCHANGED notGpg

\* the stream ended: the last accumulator is returned, or None
GpgEndOfStream ==
    /\ sig_info = "reading"
    /\ lineno = Len(stdout)
    /\ sig_info' = IF good_to_return(ret) THEN "return" ELSE "None"
    /\ UNCHANGED <<stdout, lineno, ret>>
    /\ UNCHANGED notGpg

gpg_verify_accepting(out) == "accepted"

\* gpg_verify, from what _gpg_verify did: raise on None, report the
\* accumulator otherwise; what _gpg_verify raised propagates
gpg_verify(out) ==
    CASE out = "return" -> "accepted"
      [] out = "None" -> "RuntimeError"
      [] OTHER -> "raised ValueError"

GpgVerify ==
    /\ sig_info \in {"return", "None", "ValueError"}
    /\ sig_info' = gpg_verify(sig_info)
    /\ UNCHANGED <<stdout, lineno, ret>>
    /\ UNCHANGED notGpg

NextGpg == GpgReadLine \/ GpgEndOfStream \/ GpgVerify

SpecGpg == InitGpg /\ [][NextGpg]_vars

----------------------------------------------------------------------------
(* fetch_http: one call by download_file or download_cached, with the      *)
(* server free to answer each request, to drop the connection before the   *)
(* response headers, or to refuse the connection                           *)

Netlocs == {"mirror", "cdn"}
Paths == {"/dists/x/Release", "/pool/a.deb"}
URLs == {<<n, p>> : n \in Netlocs, p \in Paths}
Statuses == {200, 302, 304, 404}

InitHttp ==
    /\ EmptyFs /\ IdleCreate /\ IdleGpg /\ IdleRepo /\ IdleDl /\ IdleLater
    /\ conns \in {{}, {"mirror"}}
    /\ url \in URLs
    /\ follow_redirects = 1
    /\ requests = <<>>
    /\ disconnects = 0
    /\ response = <<"send">>

\* conn = conns[netloc], made on a KeyError; conn.request("GET", path)
HttpRequest ==
    /\ response = <<"send">>
    /\ conns' = conns \cup {url[1]}
    /\ requests' = Append(requests, url)
    /\ response' = <<"wait">>
    /\ UNCHANGED <<url, follow_redirects, disconnects>>
    /\ UNCHANGED notHttp

\* conn.request raises (connection refused, broken pipe): nothing catches it
HttpRequestRaises ==
    /\ response = <<"send">>
    /\ conns' = conns \cup {url[1]}
    /\ response' = <<"raised OSError">>
    /\ UNCHANGED <<url, follow_redirects, requests, disconnects>>
    /\ UNCHANGED notHttp

\* conn.getresponse() raises RemoteDisconnected: pass, and the loop runs again
HttpDisconnected ==
    /\ response = <<"wait">>
    /\ disconnects < MaxDisconnects
    /\ disconnects' = disconnects + 1
    /\ response' = <<"send">>
    /\ UNCHANGED <<conns, url, follow_redirects, requests>>
    /\ UNCHANGED notHttp

Redirected_always(status, remaining) == status = 302

\* r.status == 302 and follow_redirects > 0
Redirected(status, remaining) == status = 302 /\ remaining > 0

\* conn.getresponse() returns: a 302 is followed while follow_redirects > 0
\* (the call fetch_http makes of itself), every other response is returned
HttpResponse ==
    /\ response = <<"wait">>
    /\ \E status \in Statuses, Location \in URLs :
        IF Redirected(status, follow_redirects)
        THEN /\ url' = Location
             /\ follow_redirects' = follow_redirects - 1
             /\ response' = <<"send">>
        ELSE /\ response' = <<"status", status>>
             /\ UNCHANGED <<url, follow_redirects>>
    /\ UNCHANGED <<conns, requests, disconnects>>
    /\ UNCHANGED notHttp

\* what the caller does with the response fetch_http returned:
\* download_file raises on any status but 200 and copies the body otherwise,
\* download_cached reads the cache on 304, raises on any other status but
\* 200 and stores the body otherwise
Caller(name, status) ==
    IF name = "download_cached" /\ status = 304
    THEN <<name, [kind |-> "read_bytes", arg |-> <<>>]>>
    ELSE IF status # 200 THEN <<name, RuntimeError(<<status>>)>>
    ELSE <<name, [kind |-> "r.read", arg |-> <<>>]>>

HttpReturn ==
    /\ response \in {<<"status", status>> : status \in Statuses}
    /\ \E name \in {"download_file", "download_cached"} :
        response' = Caller(name, response[2])
    /\ UNCHANGED <<conns, url, follow_redirects, requests, disconnects>>
    /\ UNCHANGED notHttp

NextHttp ==
    HttpRequest \/ HttpRequestRaises \/ HttpDisconnected \/ HttpResponse \/ HttpReturn

SpecHttp == InitHttp /\ [][NextHttp]_vars

----------------------------------------------------------------------------
(* download_files: the cached destinations are yielded by the first loop,  *)
(* the others are fetched by the workers of the executor and yielded by    *)
(* the second loop once their digest matched.  Bytes are sequences of      *)
(* small numbers.                                                          *)

Workers == 8

\* stand-in for hashlib.sha256(...).hexdigest(): a digest computed from every
\* byte, small enough to enumerate
RECURSIVE digestFrom(_, _)
digestFrom(h, bytes) ==
    IF bytes = <<>> THEN h
    ELSE digestFrom((h * 31 + Head(bytes) + 7) % 16, Tail(bytes))

HexDigits == <<"0", "1", "2", "3", "4", "5", "6", "7",
               "8", "9", "a", "b", "c", "d", "e", "f">>

sha256(bytes) == HexDigits[digestFrom(1, bytes) + 1]

DebPool == {"coreutils", "busybox", "libc"}
DebNo == [coreutils |-> 1, busybox |-> 2, libc |-> 3]

\* the .deb the archive published for a package, and other bytes of the same
\* length (a flipped byte in the cache, a tampered or truncated transfer)
PublishedDeb(d) == <<DebNo[d], 1>>
OtherDeb(d) == <<DebNo[d], 2>>

\* the package records get_needed_packages returned
Info(d) == [Package |-> d, Filename |-> <<"pool", d>>, SHA256 |-> sha256(PublishedDeb(d))]

InitDl ==
    /\ EmptyFs /\ IdleCreate /\ IdleGpg /\ IdleHttp /\ IdleRepo /\ IdleLater
    /\ \E S \in SUBSET DebPool :
        /\ Cardinality(S) <= MaxDebs
        /\ todo \in Orders(S)
        /\ served \in [S -> {"200 published", "200 other", "200 short", "404"}]
        /\ \E C \in SUBSET S : disk \in [C -> {"published", "other"}]
    /\ futures = <<>>
    /\ emitted = <<>>
    /\ dlErr = NoError

BytesOf(d, which) == IF which = "published" THEN PublishedDeb(d) ELSE OtherDeb(d)

\* the body of a 200 answer: the published .deb, other bytes, or the
\* published .deb up to where the mirror stopped sending
Body(d, answer) ==
    IF answer = "200 published" THEN PublishedDeb(d)
    ELSE IF answer = "200 short" THEN SubSeq(PublishedDeb(d), 1, 1)
    ELSE OtherDeb(d)

\* first loop, destination.exists(): yield destination; continue
DlSkipCached ==
    /\ dlErr = NoError
    /\ todo # <<>>
    /\ Head(todo) \in DOMAIN disk
    /\ emitted' = Append(emitted, Head(todo))
    /\ todo' = Tail(todo)
    /\ UNCHANGED <<disk, served, futures, dlErr>>
    /\ UNCHANGED notDl

\* first loop, otherwise: a temporary file and executor.submit(download_file, ...)
DlSubmit ==
    /\ dlErr = NoError
    /\ todo # <<>>
    /\ Head(todo) \notin DOMAIN disk
    /\ futures' = (Head(todo) :> [state |-> "pending", temp |-> <<>>, digest |-> ""])
                    @@ futures
    /\ todo' = Tail(todo)
    /\ UNCHANGED <<disk, served, emitted, dlErr>>
    /\ UNCHANGED notDl

Running == {d \in DOMAIN futures : futures[d].state = "running"}

\* a free worker of the ThreadPoolExecutor(8) takes the next submitted call
DlWorkerStart ==
    /\ Cardinality(Running) < Workers
    /\ \E d \in DOMAIN futures :
        /\ futures[d].state = "pending"
        /\ futures' = [futures EXCEPT ![d].state = "running"]
    /\ UNCHANGED <<disk, served, todo, emitted, dlErr>>
    /\ UNCHANGED notDl

\* download_file: a status other than 200 raises, a 200 body is copied into
\* the temporary file by copy_file_sha256, which returns its digest
download_file(d, answer) ==
    IF answer = "404" THEN [state |-> "raised", temp |-> <<>>, digest |-> ""]
    ELSE LET body == Body(d, answer)
         IN  [state |-> "done", temp |-> body, digest |-> sha256(body)]

\* copy_file_sha256: buf = src.read(1024 * 1024); dst.write(buf)
DlWorkerCopy ==
    /\ \E d \in Running :
        /\ served[d] # "404"
        /\ Len(futures[d].temp) < Len(Body(d, served[d]))
        /\ futures' = [futures EXCEPT
                ![d].temp = Append(@, Body(d, served[d])[Len(@) + 1])]
    /\ UNCHANGED <<disk, served, todo, emitted, dlErr>>
    /\ UNCHANGED notDl

\* copy_file_sha256: src.read raises, the connection was lost in the body
DlWorkerLost ==
    /\ \E d \in Running :
        /\ served[d] # "404"
        /\ Len(futures[d].temp) < Len(Body(d, served[d]))
        /\ futures' = [futures EXCEPT ![d].state = "raised"]
    /\ UNCHANGED <<disk, served, todo, emitted, dlErr>>
    /\ UNCHANGED notDl

\* download_file returns or raises: the status was not 200, or src.read
\* returned no more bytes and the temporary file was flushed
DlWorkerFinish ==
    /\ \E d \in Running :
        /\ served[d] = "404" \/ futures[d].temp = Body(d, served[d])
        /\ futures' = [futures EXCEPT ![d] = download_file(d, served[d])]
    /\ UNCHANGED <<disk, served, todo, emitted, dlErr>>
    /\ UNCHANGED notDl

Corrupted_never(digest, info) == FALSE

\* digest != info["SHA256"]
Corrupted(digest, info) == digest # info.SHA256

\* second loop, for future in as_completed(futures): future.result() raises
\* what download_file raised; a digest that differs raises; otherwise the
\* temporary file is linked to the destination, which is yielded
DlCollect ==
    /\ dlErr = NoError
    /\ todo = <<>>
    /\ \E d \in DOMAIN futures :
        /\ futures[d].state \in {"done", "raised"}
        /\ IF futures[d].state = "raised"
           THEN /\ dlErr' = IF served[d] = "404" THEN RuntimeError(<<"404">>)
                           ELSE IncompleteRead
                /\ UNCHANGED <<disk, emitted>>
           ELSE IF Corrupted(futures[d].digest, Info(d))
           THEN /\ dlErr' = RuntimeError(<<"Corrupted download of", d>>)
                /\ UNCHANGED <<disk, emitted>>
           ELSE /\ disk' = (d :> "linked") @@ disk
                /\ emitted' = Append(emitted, d)
                /\ UNCHANGED dlErr
        /\ futures' = [futures EXCEPT ![d].state = "collected"]
    /\ UNCHANGED <<served, todo>>
    /\ UNCHANGED notDl

NextDl ==
    \/ DlSkipCached \/ DlSubmit \/ DlWorkerStart \/ DlWorkerCopy \/ DlWorkerLost
    \/ DlWorkerFinish \/ DlCollect

SpecDl == InitDl /\ [][NextDl]_vars

\* the bytes under a destination: those the cache held, or those of the
\* temporary file that was linked to it
FileAt(d) ==
    IF disk[d] = "linked" THEN futures[d].temp ELSE BytesOf(d, disk[d])

----------------------------------------------------------------------------
(* The repository client: get_all_packages_info runs one get_packages per  *)
(* suite on an executor; build_os goes on to create_filesystem and         *)
(* download_files only when every one of them returned.                    *)

Suites == <<"stable", "updates">>
SuiteSet == Range(Suites)

Keyring == "debian-archive-keyring"

PACKAGES_PREFERENCE == <<".xz", ".gz", "">>

\* f"main/binary-{architecture}/Packages{pref}", architecture amd64, by the
\* position of pref in PACKAGES_PREFERENCE
PackagesPath ==
    <<"main/binary-amd64/Packages.xz", "main/binary-amd64/Packages.gz",
      "main/binary-amd64/Packages">>

\* the index the archive published in the encoding of a preference, and
\* other bytes in that encoding; the first byte stands for the encoding
PublishedIndex(i) == <<i, 1, 2>>
OtherIndex(i) == <<i, 1, 3>>

\* PACKAGES_PREFERENCE[pref]: the opener of an encoding reads only that
\* encoding; the packages of the index follow
opener(i, bytes) ==
    IF bytes # <<>> /\ Head(bytes) = i
    THEN [out |-> "return", packages |-> Range(Tail(bytes))]
    ELSE [out |-> "raise", packages |-> {}]

\* a line of a Release file: whether it starts with a space, and its words
relLine(indent, words) == [indent |-> indent, words |-> words]

Sha256Header == relLine(FALSE, <<"SHA256:">>)

\* a Release file whose sections list the indexes of the given preferences
ReleaseFile(listed) ==
    <<relLine(FALSE, <<"Suite:", "stable">>), relLine(FALSE, <<"MD5Sum:">>)>>
    \o [k \in 1..Len(listed) |-> relLine(TRUE, <<"md5", "3", PackagesPath[listed[k]]>>)]
    \o <<Sha256Header>>
    \o [k \in 1..Len(listed) |->
            relLine(TRUE, <<sha256(PublishedIndex(listed[k])), "3", PackagesPath[listed[k]]>>)]
    \o <<relLine(FALSE, <<"SHA512:">>),
         relLine(TRUE, <<"sha512", "3", "main/source/Sources">>)>>

Releases == {ReleaseFile(<<1, 2, 3>>), ReleaseFile(<<3>>), ReleaseFile(<<>>)}

\* a detached signature: what was signed and by which key
Signatures ==
    {[over |-> ReleaseFile(<<1, 2, 3>>), key |-> "archive"],
     [over |-> ReleaseFile(<<3>>), key |-> "archive"],
     [over |-> ReleaseFile(<<>>), key |-> "archive"],
     [over |-> ReleaseFile(<<1, 2, 3>>), key |-> "stranger"]}

KeysOf(keyring) == IF keyring = Keyring THEN {"archive"} ELSE {}

\* the status stream of gpgv --status-fd 1 --keyring ... signature contents
gpgv(keyring, signature, contents) ==
    IF signature.key \notin KeysOf(keyring)
    THEN <<statusLine(<<"NEWSIG">>), statusLine(<<"ERRSIG", "KEYID">>),
           statusLine(<<"NO_PUBKEY", "KEYID">>)>>
    ELSE IF signature.over # contents
    THEN <<statusLine(<<"NEWSIG">>), statusLine(<<"BADSIG", "KEYID", "Archive", "Key">>)>>
    ELSE <<statusLine(<<"NEWSIG">>), statusLine(<<"GOODSIG", "KEYID", "Archive", "Key">>),
           statusLine(<<"VALIDSIG", "FPR">>)>>

\* get_sha256sums: skip to the line "SHA256:", then read the lines that
\* start with a space; line.split() into three raises on any other count
RECURSIVE afterHeader(_)
afterHeader(lines) ==
    IF lines = <<>> THEN <<>>
    ELSE IF Head(lines) = Sha256Header THEN Tail(lines)
    ELSE afterHeader(Tail(lines))

RECURSIVE readSums(_, _)
readSums(lines, checksums) ==
    IF lines = <<>> \/ ~Head(lines).indent
    THEN [out |-> "return", sums |-> checksums]
    ELSE LET w == Head(lines).words
         IN  IF Len(w) # 3 THEN [out |-> "ValueError", sums |-> checksums]
             ELSE readSums(Tail(lines), (w[3] :> w[1]) @@ checksums)

get_sha256sums(release_file) == readSums(afterHeader(release_file), <<>>)

\* what the mirror can answer to a GET of download_cached, the body as a
\* sequence of one: 304 only to the If-Modified-Since that is sent when the
\* destination exists
Answers(stored, bodies) ==
    {[status |-> 200, body |-> <<b>>] : b \in bodies}
    \cup {[status |-> 404, body |-> <<>>]}
    \cup (IF stored # <<>> THEN {[status |-> 304, body |-> <<>>]} ELSE {})

\* download_cached: stored is <<>> or <<the bytes of the destination>>
download_cached(stored, answer) ==
    IF answer.status = 304
    THEN [out |-> "return", body |-> stored[1], stored |-> stored]
    ELSE IF answer.status # 200
    THEN [out |-> "RuntimeError", body |-> <<>>, stored |-> stored]
    ELSE [out |-> "return", body |-> answer.body[1], stored |-> answer.body]

RepoFiles == {"Release", "Release.gpg"} \cup Range(PackagesPath)

\* a cache that holds at most a Release and the first preference's index
CacheOf(rel, idx) ==
    [f \in RepoFiles |-> IF f = "Release" THEN rel
                         ELSE IF f = PackagesPath[1] THEN idx ELSE <<>>]

Unsubmitted == [at |-> "unsubmitted", pref |-> 1, err |-> "none"]

InitRepo ==
    /\ EmptyFs /\ IdleCreate /\ IdleGpg /\ IdleHttp /\ IdleDl /\ IdleLater
    /\ upstream = [s \in SuiteSet |-> <<>>]
    /\ cache \in [SuiteSet -> {CacheOf(rel, idx) :
                                rel \in {<<>>, <<ReleaseFile(<<1, 2, 3>>)>>},
                                idx \in {<<>>, <<PublishedIndex(1)>>, <<OtherIndex(1)>>}}]
    /\ pc = [s \in SuiteSet |-> Unsubmitted]
    /\ release = [s \in SuiteSet |-> <<>>]
    /\ release_gpg = [s \in SuiteSet |-> <<>>]
    /\ fetched = [s \in SuiteSet |-> {}]
    /\ repo_contents = [s \in SuiteSet |-> <<>>]
    /\ parsed = [s \in SuiteSet |-> <<>>]
    /\ phase = "submitting"
    /\ started = {}

\* the worker of suite s at a position, no error
At(s, where) == [pc EXCEPT ![s].at = where]

Raised(s, why) == [pc EXCEPT ![s] = [at |-> "raised", pref |-> pc[s].pref, err |-> why]]

\* executor.submit(get_packages, ..., suite), in the order of suites
RepoSubmit ==
    /\ phase = "submitting"
    /\ \E k \in DOMAIN Suites :
        /\ pc[Suites[k]].at = "unsubmitted"
        /\ \A j \in 1..(k - 1) : pc[Suites[j]].at # "unsubmitted"
        /\ pc' = At(Suites[k], "release")
    /\ UNCHANGED <<upstream, cache, release, release_gpg, fetched, repo_contents, parsed,
                   phase, started>>
    /\ UNCHANGED <<fsVars, notRepo>>

\* release = download_cached(netloc, name)
RepoFetchRelease ==
    \E s \in SuiteSet :
        /\ pc[s].at = "release"
        /\ \E answer \in Answers(cache[s]["Release"], Releases) :
            LET got == download_cached(cache[s]["Release"], answer)
            IN  /\ cache' = [cache EXCEPT ![s]["Release"] = got.stored]
                /\ IF got.out = "return"
                   THEN /\ release' = [release EXCEPT ![s] = <<got.body>>]
                        /\ pc' = At(s, "release_gpg")
                   ELSE /\ pc' = Raised(s, got.out)
                        /\ UNCHANGED release
        /\ upstream' = [upstream EXCEPT ![s] = Append(@, "Release")]
        /\ UNCHANGED <<release_gpg, fetched, repo_contents, parsed, phase, started>>
        /\ UNCHANGED <<fsVars, notRepo>>

\* release_gpg = download_cached(netloc, dist_path + "Release.gpg")
RepoFetchReleaseGpg ==
    \E s \in SuiteSet :
        /\ pc[s].at = "release_gpg"
        /\ \E answer \in Answers(cache[s]["Release.gpg"], Signatures) :
            LET got == download_cached(cache[s]["Release.gpg"], answer)
            IN  /\ cache' = [cache EXCEPT ![s]["Release.gpg"] = got.stored]
                /\ IF got.out = "return"
                   THEN /\ release_gpg' = [release_gpg EXCEPT ![s] = <<got.body>>]
                        /\ pc' = At(s, "gpg_verify")
                   ELSE /\ pc' = Raised(s, got.out)
                        /\ UNCHANGED release_gpg
        /\ upstream' = [upstream EXCEPT ![s] = Append(@, "Release.gpg")]
        /\ UNCHANGED <<release, fetched, repo_contents, parsed, phase, started>>
        /\ UNCHANGED <<fsVars, notRepo>>

\* gpg_verify(keyring, name, release_gpg, release), then
\* sha256sums = get_sha256sums(release)
RepoVerify ==
    \E s \in SuiteSet :
        /\ pc[s].at = "gpg_verify"
        /\ LET verdict == gpg_verify(_gpg_verify(gpgv(Keyring, release_gpg[s][1],
                                                      release[s][1])).out)
           IN  pc' = IF verdict # "accepted" THEN Raised(s, verdict)
                     ELSE IF get_sha256sums(release[s][1]).out # "return"
                     THEN Raised(s, "ValueError")
                     ELSE At(s, "repo_fetch")
        /\ UNCHANGED <<upstream, cache, release, release_gpg, fetched, repo_contents,
                       parsed, phase, started>>
        /\ UNCHANGED <<fsVars, notRepo>>

\* _get_packages: sha256sums[path] raises KeyError, the next preference is
\* tried; after the last one _get_packages returns None, which get_packages
\* cannot unpack
RepoKeyError ==
    \E s \in SuiteSet :
        /\ pc[s].at = "repo_fetch"
        /\ PackagesPath[pc[s].pref] \notin DOMAIN get_sha256sums(release[s][1]).sums
        /\ pc' = IF pc[s].pref < Len(PACKAGES_PREFERENCE)
                 THEN [pc EXCEPT ![s].pref = @ + 1]
                 ELSE Raised(s, "TypeError")
        /\ UNCHANGED <<upstream, cache, release, release_gpg, fetched, repo_contents,
                       parsed, phase, started>>
        /\ UNCHANGED <<fsVars, notRepo>>

ChecksumDiffers_never(expected_checksum, actual_checksum) == FALSE

\* expected_checksum != actual_checksum
ChecksumDiffers(expected_checksum, actual_checksum) == expected_checksum # actual_checksum

\* repo_fetch(path) for a path the Release lists
RepoFetch ==
    \E s \in SuiteSet :
        /\ pc[s].at = "repo_fetch"
        /\ LET i == pc[s].pref
               path == PackagesPath[i]
               sha256sums == get_sha256sums(release[s][1]).sums
           IN  /\ path \in DOMAIN sha256sums
               /\ \E answer \in Answers(cache[s][path], {PublishedIndex(i), OtherIndex(i)}) :
                   LET got == download_cached(cache[s][path], answer)
                   IN  /\ cache' = [cache EXCEPT ![s][path] = got.stored]
                       /\ IF got.out # "return"
                          THEN /\ pc' = Raised(s, got.out)
                               /\ UNCHANGED repo_contents
                          ELSE IF ChecksumDiffers(sha256sums[path], sha256(got.body))
                          THEN /\ pc' = Raised(s, "checksum")
                               /\ UNCHANGED repo_contents
                          ELSE /\ pc' = At(s, "open")
                               /\ repo_contents' = [repo_contents EXCEPT
                                      ![s] = <<[path |-> path, bytes |-> got.body]>>]
               /\ fetched' = [fetched EXCEPT ![s] = @ \cup {path}]
               /\ upstream' = [upstream EXCEPT ![s] = Append(@, path)]
        /\ UNCHANGED <<release, release_gpg, parsed, phase, started>>
        /\ UNCHANGED <<fsVars, notRepo>>

\* get_packages: the opener of the preference, then packages_dict
RepoParse ==
    \E s \in SuiteSet :
        /\ pc[s].at = "open"
        /\ LET contents == repo_contents[s][1]
               plain_f == opener(pc[s].pref, contents.bytes)
           IN  IF plain_f.out = "return"
               THEN /\ parsed' = [parsed EXCEPT ![s] =
                            <<[path |-> contents.path, from |-> contents.bytes,
                               packages |-> plain_f.packages]>>]
                    /\ pc' = At(s, "done")
               ELSE /\ pc' = Raised(s, "opener")
                    /\ UNCHANGED parsed
        /\ UNCHANGED <<upstream, cache, release, release_gpg, fetched, repo_contents,
                       phase, started>>
        /\ UNCHANGED <<fsVars, notRepo>>

\* the end of the with block waits for every worker; fut.result() of the
\* first worker that raised raises in build_os
RepoCollect ==
    /\ phase = "submitting"
    /\ \A s \in SuiteSet : pc[s].at \in {"done", "raised"}
    /\ phase' = IF \E s \in SuiteSet : pc[s].at = "raised" THEN "aborted" ELSE "collected"
    /\ UNCHANGED <<upstream, cache, pc, release, release_gpg, fetched, repo_contents,
                   parsed, started>>
    /\ UNCHANGED <<fsVars, notRepo>>

\* create_filesystem up to its loop over deb_paths
RepoSeed ==
    /\ phase = "collected"
    /\ _files' = Seeded.files
    /\ phase' = "seeded"
    /\ UNCHANGED <<fsErr, nops, last>>
    /\ UNCHANGED <<upstream, cache, pc, release, release_gpg, fetched, repo_contents,
                   parsed, started>>
    /\ UNCHANGED notRepo

\* the packages of the indexes that were parsed
Known == UNION {parsed[s][1].packages : s \in {t \in SuiteSet : parsed[t] # <<>>}}

\* the loop over deb_paths advances download_files: a .deb of a known package
RepoStartDownload ==
    /\ phase = "seeded"
    /\ \E d \in DebPool \ started :
        /\ DebNo[d] \in Known
        /\ started' = started \cup {d}
    /\ UNCHANGED <<upstream, cache, pc, release, release_gpg, fetched, repo_contents,
                   parsed, phase>>
    /\ UNCHANGED <<fsVars, notRepo>>

NextRepo ==
    \/ RepoSubmit \/ RepoFetchRelease \/ RepoFetchReleaseGpg \/ RepoVerify
    \/ RepoKeyError \/ RepoFetch \/ RepoParse \/ RepoCollect \/ RepoSeed
    \/ RepoStartDownload

SpecRepo == InitRepo /\ [][NextRepo]_vars

----------------------------------------------------------------------------
(* download_cached after a 200: destination.write_bytes(ret) opens the     *)
(* destination for writing, which creates or truncates it, writes the body *)
(* and closes it; os.utime then sets the mtime.  Another worker or another *)
(* run can stat and read the destination between any two of these steps.   *)
(* A file is <<>> when absent and <<[bytes, mtime]>> otherwise; an mtime   *)
(* is the Date of the response it came from, or the time of the write.     *)

CachedBodies == {<<1, 2>>, <<3, 4, 5>>, <<6>>}

CachedBefore == {<<>>, <<[bytes |-> <<7, 8>>, mtime |-> "earlier Date"]>>,
                 <<[bytes |-> <<1, 2>>, mtime |-> "earlier Date"]>>}

InitCw ==
    /\ EmptyFs /\ IdleButCw
    /\ dest \in CachedBefore
    /\ \E body \in CachedBodies :
        writer = [at |-> "write_bytes", ret |-> body, before |-> dest]
    /\ observed = <<>>

\* Path.write_bytes: open(mode="wb")
CwOpen ==
    /\ writer.at = "write_bytes"
    /\ dest' = <<[bytes |-> <<>>, mtime |-> "time of write"]>>
    /\ writer' = [writer EXCEPT !.at = "write"]
    /\ UNCHANGED observed
    /\ UNCHANGED <<fsVars, notCw>>

\* Path.write_bytes: f.write(data), as much as one write(2) takes
CwWrite ==
    /\ writer.at = "write"
    /\ Len(dest[1].bytes) < Len(writer.ret)
    /\ \E upto \in (Len(dest[1].bytes) + 1)..Len(writer.ret) :
        dest' = <<[bytes |-> SubSeq(writer.ret, 1, upto), mtime |-> "time of write"]>>
    /\ UNCHANGED <<writer, observed>>
    /\ UNCHANGED <<fsVars, notCw>>

\* Path.write_bytes: the end of the with block closes the file
CwClose ==
    /\ writer.at = "write"
    /\ Len(dest[1].bytes) = Len(writer.ret)
    /\ writer' = [writer EXCEPT !.at = "utime"]
    /\ UNCHANGED <<dest, observed>>
    /\ UNCHANGED <<fsVars, notCw>>

\* os.utime(destination, (mtime, mtime)) with the Date of the response
CwUtime ==
    /\ writer.at = "utime"
    /\ dest' = <<[dest[1] EXCEPT !.mtime = "Date"]>>
    /\ writer' = [writer EXCEPT !.at = "return"]
    /\ UNCHANGED observed
    /\ UNCHANGED <<fsVars, notCw>>

\* another download_cached of the same path: destination.stat() and
\* destination.read_bytes()
CwRead ==
    /\ observed' = <<dest>>
    /\ observed' # observed
    /\ UNCHANGED <<dest, writer>>
    /\ UNCHANGED <<fsVars, notCw>>

NextCw == CwOpen \/ CwWrite \/ CwClose \/ CwUtime \/ CwRead

SpecCw == InitCw /\ [][NextCw]_vars

----------------------------------------------------------------------------
(* Successive runs of the build over one cache directory, followed for one *)
(* file: the first preference's index of a suite, fetched by repo_fetch    *)
(* through download_cached, or the .deb of a package, fetched by           *)
(* download_files.  A run that raises ends the build; the next run starts  *)
(* from the cache the previous one left.                                   *)

InitRr ==
    /\ EmptyFs /\ IdleButRr
    /\ artifact \in {"index", "deb"}
    /\ kept \in {<<>>, <<IF artifact = "index" THEN PublishedIndex(1)
                                                ELSE PublishedDeb("coreutils")>>}
    /\ runlog = <<>>

Ran(source, bytes, outcome) == [source |-> source, bytes |-> bytes, outcome |-> outcome]

\* one run's repo_fetch of the index; the accepted Release lists the
\* published index
RrRepoFetch ==
    /\ artifact = "index"
    /\ Len(runlog) < MaxRuns
    /\ \E answer \in Answers(kept, {PublishedIndex(1), OtherIndex(1)}) :
        LET got == download_cached(kept, answer)
            source == IF answer.status = 304 THEN "cache" ELSE "upstream"
        IN  /\ kept' = got.stored
            /\ runlog' = Append(runlog,
                    IF got.out # "return" THEN Ran(source, <<>>, got.out)
                    ELSE IF ChecksumDiffers(sha256(PublishedIndex(1)), sha256(got.body))
                    THEN Ran(source, got.body, "mismatch")
                    ELSE Ran(source, got.body, "returned"))
    /\ UNCHANGED artifact
    /\ UNCHANGED <<fsVars, notRr>>

\* one run's download_files for the package: an existing destination is
\* yielded; otherwise download_file fills a temporary file, which is linked
\* to the destination when the digest is the record's and is deleted with
\* the run otherwise
RrDebFetch ==
    /\ artifact = "deb"
    /\ Len(runlog) < MaxRuns
    /\ IF kept # <<>>
       THEN /\ runlog' = Append(runlog, Ran("cache", kept[1], "yielded"))
            /\ UNCHANGED kept
       ELSE \E answer \in {"200 published", "200 other", "404"} :
            LET future == download_file("coreutils", answer)
            IN  IF future.state = "raised"
                THEN /\ runlog' = Append(runlog, Ran("upstream", <<>>, "RuntimeError"))
                     /\ UNCHANGED kept
                ELSE IF Corrupted(future.digest, Info("coreutils"))
                THEN /\ runlog' = Append(runlog, Ran("upstream", future.temp, "mismatch"))
                     /\ UNCHANGED kept
                ELSE /\ runlog' = Append(runlog, Ran("upstream", future.temp, "yielded"))
                     /\ kept' = <<future.temp>>
    /\ UNCHANGED artifact
    /\ UNCHANGED <<fsVars, notRr>>

NextRr == RrRepoFetch \/ RrDebFetch

SpecRr == InitRr /\ [][NextRr]_vars

----------------------------------------------------------------------------
(* get_all_packages_info: the per-suite workers return in any order; the   *)
(* results are merged after the with block, in the order of futs.          *)

ConfiguredSuites == <<"stable", "updates", "security">>

PackageNames == {"apt", "libc6"}

\* the records a suite can hold for a name: a record is a dict of fields
RecordsOf(suite, name) ==
    {("Package" :> name) @@ ("Version" :> suite),
     ("Package" :> name) @@ ("Version" :> suite) @@ ("Depends" :> "libc6")}

\* the dicts packages_dict can return for a suite
IndexesOf(suite) ==
    UNION {{idx \in [present -> UNION {RecordsOf(suite, n) : n \in present}] :
                \A n \in present : idx[n] \in RecordsOf(suite, n)} :
           present \in SUBSET PackageNames}

InitMg ==
    /\ EmptyFs /\ IdleButMg
    /\ indexes \in {f \in [Range(ConfiguredSuites) ->
                                UNION {IndexesOf(su) : su \in Range(ConfiguredSuites)}] :
                        \A su \in Range(ConfiguredSuites) : f[su] \in IndexesOf(su)}
    /\ finished = <<>>
    /\ packages_info = <<>>
    /\ collected = 0

\* the worker of a suite returns its dict
MgFinish ==
    /\ \E su \in Range(ConfiguredSuites) \ Range(finished) :
        finished' = Append(finished, su)
    /\ UNCHANGED <<indexes, packages_info, collected>>
    /\ UNCHANGED <<fsVars, notMg>>

MergeOrder_completion(futs, done) == done

\* for fut in futs: the order of submission, which is the order of suites
MergeOrder(futs, done) == futs

\* dict.update
update(d, other) == other @@ d

\* ret.update(fut.result()), once the with block has waited for every worker
MgCollect ==
    /\ Len(finished) = Len(ConfiguredSuites)
    /\ collected < Len(ConfiguredSuites)
    /\ packages_info' = update(packages_info, indexes[MergeOrder(ConfiguredSuites, finished)[collected + 1]])
    /\ collected' = collected + 1
    /\ UNCHANGED <<indexes, finished>>
    /\ UNCHANGED <<fsVars, notMg>>

NextMg == MgFinish \/ MgCollect

SpecMg == InitMg /\ [][NextMg]_vars

----------------------------------------------------------------------------
(* output_filter over the stream of docker export.  A stream is a sequence *)
(* of blocks: a header block holds the fields of one tar header, a data    *)
(* block holds BLOCKSIZE bytes, the stream ends with zero blocks.  A name  *)
(* is a sequence of components as elsewhere, so "etc/" is <<"etc", "">>.   *)
(* A member whose name does not fit the header comes as an extended header *)
(* (type x, the name in its data) followed by a header with the name cut.  *)

BLOCKSIZE == 2

XHDTYPE == "x"

ZeroBlock == [kind |-> "zero", ti |-> TarInfo(<<>>), bytes |-> <<>>]
HeaderBlock(ti) == [kind |-> "hdr", ti |-> ti, bytes |-> <<>>]
DataBlock(bytes) == [kind |-> "data", ti |-> TarInfo(<<>>), bytes |-> bytes]

roundup_block(size) == ((size + BLOCKSIZE - 1) \div BLOCKSIZE) * BLOCKSIZE

\* the data blocks of a body, the last one padded with NUL
RECURSIVE DataBlocks(_)
DataBlocks(body) ==
    IF body = <<>> THEN <<>>
    ELSE IF Len(body) < BLOCKSIZE
    THEN <<DataBlock(body \o [k \in 1..(BLOCKSIZE - Len(body)) |-> 0])>>
    ELSE <<DataBlock(SubSeq(body, 1, BLOCKSIZE))>>
         \o DataBlocks(SubSeq(body, BLOCKSIZE + 1, Len(body)))

LongName == <<"usr", "share", "a-name-of-more-than-100-characters">>
CutName == <<"usr", "share", "a-name-of-more-than">>

\* TarInfo.frombuf: the fields of the header; a directory's name loses its
\* trailing slash
frombuf(buf) ==
    LET name == buf.ti.name
    IN  IF buf.ti.type = DIRTYPE /\ name # <<>> /\ name[Len(name)] = ""
        THEN [buf.ti EXCEPT !.name = Front(name)]
        ELSE buf.ti

\* the extended header tobuf and the exporter write before a header whose
\* name does not fit
ExtendedHeader(name) ==
    <<HeaderBlock([TarInfo(<<".", ".", "@PaxHeader">>) EXCEPT !.type = XHDTYPE, !.size = 1])>>
    \o <<DataBlock(<<name>> \o [k \in 1..(BLOCKSIZE - 1) |-> 0])>>

\* TarInfo.tobuf: a directory's name gets its trailing slash, a name that
\* does not fit is cut and goes to an extended header
tobuf(ti) ==
    LET slashed == IF ti.type = DIRTYPE /\ ti.name # <<>> /\ ti.name[Len(ti.name)] # ""
                   THEN Append(ti.name, "") ELSE ti.name
    IN  IF ti.name = LongName
        THEN ExtendedHeader(ti.name) \o <<HeaderBlock([ti EXCEPT !.name = CutName])>>
        ELSE <<HeaderBlock([ti EXCEPT !.name = slashed])>>

\* a member as the exporter writes it
Member(ti, body) ==
    (IF ti.name = LongName
     THEN ExtendedHeader(ti.name) \o <<HeaderBlock([ti EXCEPT !.name = CutName])>>
     ELSE <<HeaderBlock(ti)>>)
    \o DataBlocks(body)

DOCKERENV == <<".dockerenv">>
RESOLV_CONF == <<"etc", "resolv.conf">>
STUB_RESOLV_CONF == <<"/", "run", "systemd", "resolve", "stub-resolv.conf">>

\* the Filesystem of the build: what create_filesystem tracked
TrackedFs ==
    addAll(Started(<<>>),
           <<dir(<<"etc">>, 5), reg(<<"etc", "passwd">>, 420, 3, <<1>>),
             reg(LongName, 420, 7, <<>>)>>).files

\* the members an export can hold, with the mtimes the container left
ExportMembers ==
    {Member(reg(DOCKERENV, 493, 9, <<>>).ti, <<>>),
     Member(reg(RESOLV_CONF, 420, 9, <<1, 2, 3>>).ti, <<1, 2, 3>>),
     Member([dir(<<"etc">>, 9).ti EXCEPT !.name = <<"etc", "">>], <<>>),
     Member(reg(<<"etc", "passwd">>, 420, 3, <<1>>).ti, <<1>>),
     Member(reg(<<"etc", "passwd">>, 420, 9, <<1, 2>>).ti, <<1, 2>>),
     Member(reg(<<"etc", "machine-id">>, 292, 9, <<4, 5>>).ti, <<4, 5>>),
     Member(reg(LongName, 420, 9, <<>>).ti, <<>>),
     Member(lnk(<<"etc", "mtab">>, <<"..", "proc", "mounts">>, 9).ti, <<>>)}

RECURSIVE Concat(_)
Concat(seqs) == IF seqs = <<>> THEN <<>> ELSE Head(seqs) \o Concat(Tail(seqs))

InitOf ==
    /\ IdleButOf
    /\ _files = TrackedFs /\ fsErr = NoError /\ nops = 0 /\ last = NoCall
    /\ \E ms \in SeqsUpTo(ExportMembers, MaxEntries) :
        exported = Concat(ms) \o <<ZeroBlock, ZeroBlock>>
    /\ in_fh = exported
    /\ out_fh = <<>>
    /\ filtering = "loop"

mutate_file_keeping(fs, ti) ==
    IF ti.name \in DOMAIN fs
    THEN [keep |-> TRUE, ti |-> [ti EXCEPT !.mtime = fs[ti.name].info.mtime]]
    ELSE [keep |-> TRUE, ti |-> [ti EXCEPT !.mtime = 0]]

\* mutate_file: whether the entry is kept, and the entry with its mtime set
mutate_file(fs, ti) ==
    IF ti.name = DOCKERENV THEN [keep |-> FALSE, ti |-> ti]
    ELSE IF ti.name = RESOLV_CONF THEN [keep |-> FALSE, ti |-> ti]
    ELSE IF ti.name \in DOMAIN fs
    THEN [keep |-> TRUE, ti |-> [ti EXCEPT !.mtime = fs[ti.name].info.mtime]]
    ELSE [keep |-> TRUE, ti |-> [ti EXCEPT !.mtime = 0]]

\* one turn of the loop: a header is read, and the header and the blocks of
\* its body go to out_fh or to NullFile
OfEntry ==
    /\ filtering = "loop"
    /\ in_fh # <<>> /\ Head(in_fh).kind = "hdr"
    /\ LET ti == frombuf(Head(in_fh))
           len_to_read == roundup_block(ti.size)
           blocks == len_to_read \div BLOCKSIZE
           passed == mutate_file(_files, ti)
       IN  /\ blocks + 1 <= Len(in_fh)
           /\ out_fh' = IF passed.keep
                        THEN out_fh \o tobuf(passed.ti) \o SubSeq(in_fh, 2, blocks + 1)
                        ELSE out_fh
           /\ in_fh' = SubSeq(in_fh, blocks + 2, Len(in_fh))
    /\ UNCHANGED <<exported, filtering>>
    /\ UNCHANGED <<fsVars, notOf>>

\* a zero block raises EOFHeaderError: the loop is left, the symlink and the
\* end of the archive are written
OfEnd ==
    /\ filtering = "loop"
    /\ in_fh # <<>> /\ Head(in_fh).kind = "zero"
    /\ out_fh' = out_fh \o tobuf(symlinkInfo(RESOLV_CONF, STUB_RESOLV_CONF))
                        \o <<ZeroBlock, ZeroBlock>>
    /\ in_fh' = Tail(in_fh)
    /\ filtering' = "flushed"
    /\ UNCHANGED exported
    /\ UNCHANGED <<fsVars, notOf>>

NextOf == OfEntry \/ OfEnd

SpecOf == InitOf /\ [][NextOf]_vars

----------------------------------------------------------------------------
(* get_needed_packages.  A record is a dict of the fields its stanza had;  *)
(* a Depends or Pre-Depends value is the sequence of its comma-separated   *)
(* clauses, a clause the sequence of its whitespace-separated tokens.      *)

Indexed == {"apt", "dpkg", "libc6"}

\* the Depends and Pre-Depends fields a stanza can have
DependencyFields ==
    {<<>>,
     ("Depends" :> <<<<"libc6", "(>=", "2.28)">>>>),
     ("Depends" :> <<<<"mawk", "|", "dpkg">>, <<"apt">>>>),
     ("Depends" :> <<<<"dpkg", "|", "libc6">>>>),
     ("Depends" :> <<<<"apt">>>>) @@ ("Pre-Depends" :> <<<<"dpkg", "(>=", "1.15)">>>>)}

\* the records packages_dict can hold for a name
StanzasOf(name) ==
    {("Package" :> name) @@ ("Priority" :> prio) @@ deps :
        prio \in {"required", "optional"}, deps \in DependencyFields}

\* info.get(key, "").split(","): no clause but the empty one when absent
get(info, key) == IF key \in DOMAIN info THEN info[key] ELSE <<<<>>>>

FirstToken_last(clause) == clause[Len(clause)]

\* dep.strip().split()[0]
FirstToken(clause) == clause[1]

RECURSIVE firstTokens(_)
firstTokens(deps) ==
    IF deps = <<>> THEN <<>>
    ELSE IF Head(deps) = <<>> THEN firstTokens(Tail(deps))
    ELSE <<FirstToken(Head(deps))>> \o firstTokens(Tail(deps))

get_dependencies(info) == firstTokens(get(info, "Depends") \o get(info, "Pre-Depends"))

SeedNames5 == {"apt", "gpgv", "systemd", "linux-image-virtual", "udev"}

InitNp ==
    /\ EmptyFs /\ IdleButNp
    /\ \E present \in SUBSET Indexed :
        packages_index \in {idx \in [present -> UNION {StanzasOf(n) : n \in present}] :
                                \A n \in present : idx[n] \in StanzasOf(n)}
    /\ required = {}
    /\ unprocessed = {n \in DOMAIN packages_index :
                            packages_index[n]["Priority"] = "required"} \cup SeedNames5
    /\ needed = <<>>

\* one turn of the while loop: a name is popped; without a record it is
\* skipped, with one it is required and its dependencies that are neither
\* required nor unprocessed become unprocessed
NpPop ==
    /\ needed = <<>>
    /\ \E name \in unprocessed :
        IF name \notin DOMAIN packages_index
        THEN /\ unprocessed' = unprocessed \ {name}
             /\ UNCHANGED required
        ELSE /\ required' = required \cup {name}
             /\ unprocessed' = (unprocessed \ {name})
                    \cup (Range(get_dependencies(packages_index[name])) \ required')
    /\ UNCHANGED <<packages_index, needed>>
    /\ UNCHANGED <<fsVars, notNp>>

\* the loop is left: the records of required, shuffled
NpReturn ==
    /\ needed = <<>>
    /\ unprocessed = {}
    /\ \E order \in Orders(required) :
        needed' = <<[k \in DOMAIN order |-> packages_index[order[k]]]>>
    /\ UNCHANGED <<packages_index, required, unprocessed>>
    /\ UNCHANGED <<fsVars, notNp>>

NextNp == NpPop \/ NpReturn

SpecNp == InitNp /\ [][NextNp]_vars /\ WF_vars(NextNp)

-----------------------------------------------------------------------------
(* build_os: the container runtime pipeline and the installation of root.tar *)

\* the blocks output_filter passes on besides the end of the archive, and the
\* reads second_stage makes of the container's output, at most
MaxChunks == 2

\* the exit statuses a docker subprocess can have
ExitStatuses == {0, 1}

Failed_never(exit_status) == FALSE

\* ret != 0, retcode != 0, wait() != 0, check_output's CalledProcessError
Failed(exit_status) == exit_status # 0

\* NUL * (BLOCKSIZE * 2), as one item of the stream
EndOfArchive == 0

\* the root.tar an earlier build installed
PreviousBuild == <<9, EndOfArchive>>

\* the name NamedTemporaryFile(dir=".") chose
TempName == "tmpXXXXXXXX"

BuildErrors ==
    {"raised RuntimeError", "raised CalledProcessError", "raised BrokenPipeError",
     "raised HeaderError", "raised FileExistsError"}

\* the working directory before the build: root.tar of an earlier build or
\* none, root.tar.new left by a build that was killed before its rename or none
InitBo ==
    /\ EmptyFs /\ IdleButBo
    /\ at_step = "import"
    /\ launched = <<>> /\ statuses = <<>> /\ docker_output = <<>> /\ dumped = <<>>
    /\ \E names \in SUBSET {"root.tar", "root.tar.new"} :
        /\ dir_names = [n \in names |-> IF n = "root.tar" THEN "previous" ELSE "stale"]
        /\ inode_bytes = [i \in {IF n = "root.tar" THEN "previous" ELSE "stale" : n \in names}
                            |-> PreviousBuild]
    /\ buffered = <<>> /\ hashed = <<>> /\ printed = <<>>

\* os.unlink(name)
unlink(names, name) == [n \in DOMAIN names \ {name} |-> names[n]]

\* Popen(["docker", "import", "-"], stdin=PIPE, stdout=PIPE)
BoPopenImport ==
    /\ at_step = "import"
    /\ launched' = Append(launched, "import")
    /\ at_step' = "write_image"
    /\ UNCHANGED <<statuses, docker_output, dumped, dir_names, inode_bytes, buffered,
                   hashed, printed>>
    /\ UNCHANGED <<fsVars, notBo>>

\* write_image(fs, hasher) into the pipe: docker import takes the image or
\* has closed its end
BoWriteImage ==
    /\ at_step = "write_image"
    /\ at_step' \in {"import.wait", "raised BrokenPipeError"}
    /\ UNCHANGED <<launched, statuses, docker_output, dumped, dir_names, inode_bytes,
                   buffered, hashed, printed>>
    /\ UNCHANGED <<fsVars, notBo>>

\* ret = docker_import_p.wait(); if ret != 0: raise
BoImportWait ==
    /\ at_step = "import.wait"
    /\ \E exit_status \in ExitStatuses :
        /\ statuses' = Append(statuses, exit_status)
        /\ at_step' = IF Failed(exit_status) THEN "raised RuntimeError" ELSE "create"
    /\ UNCHANGED <<launched, docker_output, dumped, dir_names, inode_bytes, buffered,
                   hashed, printed>>
    /\ UNCHANGED <<fsVars, notBo>>

\* second_stage: check_output(["docker", "create", ...]) runs the subprocess
\* to its end and raises CalledProcessError on a non-zero status
BoCreate ==
    /\ at_step = "create"
    /\ launched' = Append(launched, "create")
    /\ \E retcode \in ExitStatuses :
        /\ statuses' = Append(statuses, retcode)
        /\ at_step' = IF Failed(retcode) THEN "raised CalledProcessError" ELSE "start"
    /\ UNCHANGED <<docker_output, dumped, dir_names, inode_bytes, buffered, hashed,
                   printed>>
    /\ UNCHANGED <<fsVars, notBo>>

\* second_stage: Popen(["docker", "start", "-a", container_id], ...)
BoPopenStart ==
    /\ at_step = "start"
    /\ launched' = Append(launched, "start")
    /\ at_step' = "read"
    /\ UNCHANGED <<statuses, docker_output, dumped, dir_names, inode_bytes, buffered,
                   hashed, printed>>
    /\ UNCHANGED <<fsVars, notBo>>

\* second_stage: buf = os.read(r, ...); docker_output.append(buf)
BoRead ==
    /\ at_step = "read"
    /\ Len(docker_output) < MaxChunks
    /\ docker_output' = Append(docker_output, Len(docker_output) + 1)
    /\ UNCHANGED <<at_step, launched, statuses, dumped, dir_names, inode_bytes,
                   buffered, hashed, printed>>
    /\ UNCHANGED <<fsVars, notBo>>

\* second_stage: if not buf: break
BoReadEnd ==
    /\ at_step = "read"
    /\ at_step' = "start.wait"
    /\ UNCHANGED <<launched, statuses, docker_output, dumped, dir_names, inode_bytes,
                   buffered, hashed, printed>>
    /\ UNCHANGED <<fsVars, notBo>>

\* second_stage: retcode = docker_start_p.wait(); a non-zero retcode dumps
\* the buffered output and raises
BoStartWait ==
    /\ at_step = "start.wait"
    /\ \E retcode \in ExitStatuses :
        /\ statuses' = Append(statuses, retcode)
        /\ IF Failed(retcode)
           THEN dumped' = docker_output /\ at_step' = "raised RuntimeError"
           ELSE dumped' = dumped /\ at_step' = "export"
    /\ UNCHANGED <<launched, docker_output, dir_names, inode_bytes, buffered, hashed,
                   printed>>
    /\ UNCHANGED <<fsVars, notBo>>

\* Popen(["docker", "export", container_id], stdout=PIPE)
BoPopenExport ==
    /\ at_step = "export"
    /\ launched' = Append(launched, "export")
    /\ at_step' = "tempfile"
    /\ UNCHANGED <<statuses, docker_output, dumped, dir_names, inode_bytes, buffered,
                   hashed, printed>>
    /\ UNCHANGED <<fsVars, notBo>>

\* with NamedTemporaryFile(dir=".") as out_fh: hasher = SHA256File(out_fh)
BoTempFile ==
    /\ at_step = "tempfile"
    /\ dir_names' = (TempName :> "temporary") @@ dir_names
    /\ inode_bytes' = ("temporary" :> <<>>) @@ inode_bytes
    /\ at_step' = "filter"
    /\ UNCHANGED <<launched, statuses, docker_output, dumped, buffered, hashed, printed>>
    /\ UNCHANGED <<fsVars, notBo>>

\* output_filter: one member passed on; SHA256File.write hashes the bytes and
\* hands them to out_fh, which buffers them
BoFilterWrite ==
    /\ at_step = "filter"
    /\ Len(hashed) < MaxChunks
    /\ hashed' = Append(hashed, Len(hashed) + 1)
    /\ buffered' = Append(buffered, Len(hashed) + 1)
    /\ UNCHANGED <<at_step, launched, statuses, docker_output, dumped, dir_names,
                   inode_bytes, printed>>
    /\ UNCHANGED <<fsVars, notBo>>

\* out_fh's buffer is full and goes to the file
BoSpill ==
    /\ at_step = "filter"
    /\ buffered # <<>>
    /\ inode_bytes' = [inode_bytes EXCEPT !["temporary"] = @ \o buffered]
    /\ buffered' = <<>>
    /\ UNCHANGED <<at_step, launched, statuses, docker_output, dumped, dir_names,
                   hashed, printed>>
    /\ UNCHANGED <<fsVars, notBo>>

\* leaving the with block: out_fh is closed, which writes what it buffered,
\* and its name is removed
close(names, inodes, buffer) ==
    [names |-> unlink(names, TempName),
     inodes |-> [inodes EXCEPT !["temporary"] = @ \o buffer]]

\* output_filter: docker export's stream stops short of the end of the
\* archive; TarInfo.frombuf raises a HeaderError other than EOFHeaderError
BoFilterRaise ==
    /\ at_step = "filter"
    /\ LET closed == close(dir_names, inode_bytes, buffered)
       IN  dir_names' = closed.names /\ inode_bytes' = closed.inodes
    /\ buffered' = <<>>
    /\ at_step' = "raised HeaderError"
    /\ UNCHANGED <<launched, statuses, docker_output, dumped, hashed, printed>>
    /\ UNCHANGED <<fsVars, notBo>>

\* output_filter: the end of the archive was read; the etc/resolv.conf
\* member and the end of the archive are written, then out_fh.flush()
BoFilterEnd ==
    /\ at_step = "filter"
    /\ hashed' = Append(hashed, EndOfArchive)
    /\ inode_bytes' = [inode_bytes EXCEPT
                            !["temporary"] = @ \o Append(buffered, EndOfArchive)]
    /\ buffered' = <<>>
    /\ at_step' = "export.wait"
    /\ UNCHANGED <<launched, statuses, docker_output, dumped, dir_names, printed>>
    /\ UNCHANGED <<fsVars, notBo>>

\* if docker_export_p.wait() != 0: raise
BoExportWait ==
    /\ at_step = "export.wait"
    /\ \E exit_status \in ExitStatuses :
        /\ statuses' = Append(statuses, exit_status)
        /\ IF Failed(exit_status)
           THEN LET closed == close(dir_names, inode_bytes, buffered)
                IN  /\ dir_names' = closed.names /\ inode_bytes' = closed.inodes
                    /\ buffered' = <<>>
                    /\ at_step' = "raised RuntimeError"
           ELSE /\ UNCHANGED <<dir_names, inode_bytes, buffered>>
                /\ at_step' = "link"
    /\ UNCHANGED <<launched, docker_output, dumped, hashed, printed>>
    /\ UNCHANGED <<fsVars, notBo>>

\* os.link(out_fh.name, "root.tar.new")
BoLink ==
    /\ at_step = "link"
    /\ IF "root.tar.new" \in DOMAIN dir_names
       THEN LET closed == close(dir_names, inode_bytes, buffered)
            IN  /\ dir_names' = closed.names /\ inode_bytes' = closed.inodes
                /\ buffered' = <<>>
                /\ at_step' = "raised FileExistsError"
       ELSE /\ dir_names' = ("root.tar.new" :> dir_names[TempName]) @@ dir_names
            /\ UNCHANGED <<inode_bytes, buffered>>
            /\ at_step' = "rename"
    /\ UNCHANGED <<launched, statuses, docker_output, dumped, hashed, printed>>
    /\ UNCHANGED <<fsVars, notBo>>

\* os.rename("root.tar.new", "root.tar")
BoRename ==
    /\ at_step = "rename"
    /\ dir_names' = ("root.tar" :> dir_names["root.tar.new"])
                        @@ unlink(dir_names, "root.tar.new")
    /\ at_step' = "close"
    /\ UNCHANGED <<launched, statuses, docker_output, dumped, inode_bytes, buffered,
                   hashed, printed>>
    /\ UNCHANGED <<fsVars, notBo>>

\* the with block ends
BoClose ==
    /\ at_step = "close"
    /\ LET closed == close(dir_names, inode_bytes, buffered)
       IN  dir_names' = closed.names /\ inode_bytes' = closed.inodes
    /\ buffered' = <<>>
    /\ at_step' = "print"
    /\ UNCHANGED <<launched, statuses, docker_output, dumped, hashed, printed>>
    /\ UNCHANGED <<fsVars, notBo>>

\* print("sha256:" + hasher.hexdigest())
BoPrint ==
    /\ at_step = "print"
    /\ printed' = Append(printed, <<"sha256:", sha256(hashed)>>)
    /\ at_step' = "done"
    /\ UNCHANGED <<launched, statuses, docker_output, dumped, dir_names, inode_bytes,
                   buffered, hashed>>
    /\ UNCHANGED <<fsVars, notBo>>

NextBo ==
    \/ BoPopenImport \/ BoWriteImage \/ BoImportWait
    \/ BoCreate \/ BoPopenStart \/ BoRead \/ BoReadEnd \/ BoStartWait
    \/ BoPopenExport \/ BoTempFile \/ BoFilterWrite \/ BoSpill \/ BoFilterRaise
    \/ BoFilterEnd \/ BoExportWait \/ BoLink \/ BoRename \/ BoClose \/ BoPrint

SpecBo == InitBo /\ [][NextBo]_vars

-----------------------------------------------------------------------------
(* unpack_ar: one .deb read member by member, every item it yields added   *)
(* to the Filesystem by create_filesystem's loop.  Here a name is a        *)
(* sequence of characters, a run of letters written as one item:           *)
(* "./.hidden" is <<".", "/", ".", "hidden">>.                             *)

\* the members of a data.tar, at most
MaxMembers == 3

\* the names tarfile gives the members of a data.tar ("./" comes as "."),
\* and those of them that are directories
ArchiveNames ==
    {<<".">>, <<".", "/", "a">>, <<".", "/", "a", "/", "b">>,
     <<".", "/", ".", "hidden">>, <<"a", "/", "c">>}
ArchiveDirs == {<<".">>, <<".", "/", "a">>}

DataMember(name) ==
    [name |-> name, type |-> IF name \in ArchiveDirs THEN DIRTYPE ELSE REGTYPE]

\* control.tar: ./, ./control and a maintainer script
ControlTar ==
    <<[name |-> <<".">>, type |-> DIRTYPE],
      [name |-> <<".", "/", "control">>, type |-> REGTYPE],
      [name |-> <<".", "/", "postinst">>, type |-> REGTYPE]>>

\* the orders and kinds of members an ar archive can have
Layouts ==
    {<<"debian-binary", "control.tar", "data.tar">>,
     <<"debian-binary", "data.tar", "control.tar">>,
     <<"debian-binary", "data.tar">>,
     <<"control.tar">>}

\* str.lstrip(chars): every leading character that is in chars goes
RECURSIVE lstrip(_, _)
lstrip(name, chars) ==
    IF name # <<>> /\ Head(name) \in chars THEN lstrip(Tail(name), chars)
    ELSE name

transform_name_plain(name) == <<"/">> \o name \o <<"\n">>

transform_name(name) ==
    IF name = <<>> THEN <<"/", ".", "\n">>
    ELSE <<"/">> \o name \o <<"\n">>

\* parse_control_data: "var/lib/dpkg/info/{}.".format(name), for the package foo
ControlPrefix == <<"var", "/", "lib", "/", "dpkg", "/", "info", "/", "foo", ".">>

\* _dpkg_info_files: the control file with its Status line, then every other
\* regular member under the prefix
RECURSIVE infoMembers(_, _)
infoMembers(prefix, tf) ==
    IF tf = <<>> THEN <<>>
    ELSE LET member == Head(tf)
             name == lstrip(member.name, {".", "/"})
         IN  IF member.type # REGTYPE \/ name = <<"control">>
             THEN infoMembers(prefix, Tail(tf))
             ELSE <<[name |-> prefix \o name, archive |-> member.name,
                     type |-> member.type, from |-> "control.tar", body |-> <<1>>]>>
                  \o infoMembers(prefix, Tail(tf))

_dpkg_info_files(prefix, tf) ==
    <<[name |-> prefix \o <<"control">>, archive |-> <<".", "/", "control">>,
       type |-> REGTYPE, from |-> "control.tar", body |-> <<1, 2>>]>>
    \o infoMembers(prefix, tf)

\* name.split("/")
RECURSIVE split(_, _)
split(name, word) ==
    IF name = <<>> THEN <<word>>
    ELSE IF Head(name) = "/" THEN <<word>> \o split(Tail(name), <<>>)
    ELSE split(Tail(name), Append(word, Head(name)))

\* a component as the Filesystem's paths write it
Text(word) ==
    CASE Len(word) = 1 -> word[1]
      [] word = <<"foo", ".", "control">> -> "foo.control"
      [] word = <<"foo", ".", "postinst">> -> "foo.postinst"
      [] word = <<"foo", ".", "list">> -> "foo.list"
      [] word = <<".", "hidden">> -> ".hidden"

\* the name as a path of components; the empty name is the empty path
PathOf(name) ==
    IF name = <<>> THEN <<>>
    ELSE LET words == split(name, <<>>) IN [i \in DOMAIN words |-> Text(words[i])]

InitAr ==
    /\ EmptyFs /\ IdleButAr
    /\ \E layout \in Layouts, names \in SeqsUpTo(ArchiveNames, MaxMembers) :
        deb = [i \in DOMAIN layout |->
                [name |-> layout[i],
                 tar |-> IF layout[i] = "data.tar"
                         THEN [k \in DOMAIN names |-> DataMember(names[k])]
                         ELSE IF layout[i] = "control.tar" THEN ControlTar
                         ELSE <<>>]]
    /\ ar_rest = deb
    /\ tf_rest = <<>> /\ dpkg_rest = <<>> /\ dpkg_prefix = <<>>
    /\ manifest = <<>> /\ yielded = <<>>
    /\ ar_at = "header"

\* create_filesystem: fs.add(member, BytesIO(contents)) for the item yielded
Consume(item) ==
    LET ti == [TarInfo(PathOf(item.name)) EXCEPT !.type = item.type,
                                                 !.size = Len(item.body)]
        r == add(_files, ti, item.body)
    IN  /\ yielded' = Append(yielded, item)
        /\ _files' = r.files
        /\ fsErr' = r.err
        /\ last' = [ti |-> ti, fh |-> item.body, name |-> r.name, outcome |-> r.outcome]
        /\ nops' = nops

\* header = fh.read(60): the next member of the ar; a data.tar is opened, a
\* control.tar is handed to handle_control_tar, anything else is passed over
ArHeader ==
    /\ ar_at = "header" /\ fsErr = NoError
    /\ ar_rest # <<>>
    /\ LET member == Head(ar_rest)
       IN  /\ ar_rest' = Tail(ar_rest)
           /\ IF member.name = "data.tar"
              THEN /\ tf_rest' = member.tar /\ ar_at' = "data.tar"
                   /\ UNCHANGED <<dpkg_rest, dpkg_prefix>>
              ELSE IF member.name = "control.tar"
              THEN /\ dpkg_prefix' = <<ControlPrefix>>
                   /\ dpkg_rest' = _dpkg_info_files(ControlPrefix, member.tar)
                   /\ ar_at' = "control.tar"
                   /\ UNCHANGED tf_rest
              ELSE UNCHANGED <<tf_rest, dpkg_rest, dpkg_prefix, ar_at>>
    /\ UNCHANGED <<deb, manifest, yielded>>
    /\ UNCHANGED <<fsVars, notAr>>

\* for member in tf: the name loses its leading characters, its line goes to
\* files, the member is yielded
ArData ==
    /\ ar_at = "data.tar" /\ fsErr = NoError
    /\ tf_rest # <<>>
    /\ LET member == Head(tf_rest)
           name == lstrip(member.name, {".", "/"})
       IN  /\ manifest' = Append(manifest, transform_name(name))
           /\ Consume([name |-> name, archive |-> member.name, type |-> member.type,
                       from |-> "data.tar",
                       body |-> IF member.type = REGTYPE THEN <<1>> ELSE <<>>])
    /\ tf_rest' = Tail(tf_rest)
    /\ UNCHANGED <<deb, ar_rest, dpkg_rest, dpkg_prefix, ar_at>>
    /\ UNCHANGED notAr

\* the data.tar has no more members
ArDataEnd ==
    /\ ar_at = "data.tar" /\ fsErr = NoError
    /\ tf_rest = <<>>
    /\ ar_at' = "header"
    /\ UNCHANGED <<deb, ar_rest, tf_rest, dpkg_rest, dpkg_prefix, manifest, yielded>>
    /\ UNCHANGED <<fsVars, notAr>>

\* yield from dpkg_files
ArControl ==
    /\ ar_at = "control.tar" /\ fsErr = NoError
    /\ dpkg_rest # <<>>
    /\ Consume(Head(dpkg_rest))
    /\ dpkg_rest' = Tail(dpkg_rest)
    /\ UNCHANGED <<deb, ar_rest, tf_rest, dpkg_prefix, manifest, ar_at>>
    /\ UNCHANGED notAr

ArControlEnd ==
    /\ ar_at = "control.tar" /\ fsErr = NoError
    /\ dpkg_rest = <<>>
    /\ ar_at' = "header"
    /\ UNCHANGED <<deb, ar_rest, tf_rest, dpkg_rest, dpkg_prefix, manifest, yielded>>
    /\ UNCHANGED <<fsVars, notAr>>

\* if not header: break; a prefix of None raises
ArMissingControl ==
    /\ ar_at = "header" /\ fsErr = NoError
    /\ ar_rest = <<>>
    /\ dpkg_prefix = <<>>
    /\ ar_at' = "raised RuntimeError"
    /\ UNCHANGED <<deb, ar_rest, tf_rest, dpkg_rest, dpkg_prefix, manifest, yielded>>
    /\ UNCHANGED <<fsVars, notAr>>

\* otherwise the .list is yielded: "".join(files) under prefix + "list"
ArList ==
    /\ ar_at = "header" /\ fsErr = NoError
    /\ ar_rest = <<>>
    /\ dpkg_prefix # <<>>
    /\ Consume([name |-> dpkg_prefix[1] \o <<"list">>,
                archive |-> dpkg_prefix[1] \o <<"list">>, type |-> REGTYPE,
                from |-> "list", body |-> Concat(manifest)])
    /\ ar_at' = "returned"
    /\ UNCHANGED <<deb, ar_rest, tf_rest, dpkg_rest, dpkg_prefix, manifest>>
    /\ UNCHANGED notAr

NextAr ==
    \/ ArHeader \/ ArData \/ ArDataEnd \/ ArControl \/ ArControlEnd
    \/ ArMissingControl \/ ArList

SpecAr == InitAr /\ [][NextAr]_vars

-----------------------------------------------------------------------------
(* packages_dict: the index read line by line.  A line "Key: value" is     *)
(* <<key, value>>, a blank line is <<>>.                                   *)

\* the lines of an index, at most
MaxIndexLines == 4

FIELDS ==
    {"Package", "Filename", "Version", "Priority", "SHA256", "Depends", "Pre-Depends"}

\* FIELDS_MATCHER.match(line): a field of FIELDS, ": " and the value
FIELDS_MATCHER(line) == line # <<>> /\ line[1] \in FIELDS

IndexLines ==
    {<<>>, <<"Package", "apt">>, <<"Package", "dpkg">>, <<"Version", "1">>,
     <<"Depends", "dpkg">>, <<"Multi-Arch", "same">>, <<"Architecture", "amd64">>,
     <<"Description", "tool">>}

InitPd ==
    /\ EmptyFs /\ IdleButPd
    /\ index_lines \in SeqsUpTo(IndexLines, MaxIndexLines)
    /\ unread = index_lines
    /\ package = <<>>
    /\ pd_ret = <<>>
    /\ pd_at = "loop"

\* ret[package["Package"]] = package, or the KeyError of a stanza without
\* a Package field
Stored(stanza) ==
    IF "Package" \in DOMAIN stanza
    THEN [at |-> "loop", ret |-> (stanza["Package"] :> stanza) @@ pd_ret]
    ELSE [at |-> "raised KeyError", ret |-> pd_ret]

\* for line in packages: a blank line after a non-empty stanza stores it;
\* a line FIELDS_MATCHER matches sets its field
PdLine ==
    /\ pd_at = "loop"
    /\ unread # <<>>
    /\ LET line == Head(unread)
           closing == line = <<>> /\ package # <<>>
           stored == IF closing THEN Stored(package) ELSE [at |-> "loop", ret |-> pd_ret]
           current == IF closing THEN <<>> ELSE package
       IN  /\ pd_ret' = stored.ret
           /\ pd_at' = stored.at
           /\ package' = IF stored.at # "loop" THEN package
                         ELSE IF FIELDS_MATCHER(line)
                         THEN (line[1] :> line[2]) @@ current
                         ELSE current
    /\ unread' = Tail(unread)
    /\ UNCHANGED index_lines
    /\ UNCHANGED <<fsVars, notPd>>

\* after the loop: if package: ret[package["Package"]] = package; return ret
PdReturn ==
    /\ pd_at = "loop"
    /\ unread = <<>>
    /\ LET stored == IF package # <<>> THEN Stored(package)
                     ELSE [at |-> "loop", ret |-> pd_ret]
       IN  /\ pd_ret' = stored.ret
           /\ pd_at' = IF stored.at = "loop" THEN "returned" ELSE stored.at
    /\ UNCHANGED <<index_lines, unread, package>>
    /\ UNCHANGED <<fsVars, notPd>>

NextPd == PdLine \/ PdReturn

SpecPd == InitPd /\ [][NextPd]_vars

-----------------------------------------------------------------------------
(* write_image: the entries of the Filesystem written in the order of      *)
(* sorted(files).  sorted compares the names character by character, so    *)
(* here a canonical name is the sequence of its characters.                *)

\* the entries of the Filesystem, at most
MaxFiles == 3

\* the characters of the names, in the order of their code points
CodePoints ==
    <<"-", ".", "/", "A", "C", "E", "G", "L", "M", "S", "_", "a", "b", "c", "d", "e",
      "h", "i", "l", "m", "n", "o", "p", "r", "s", "t", "u", "x">>

ord(c) == CHOOSE i \in DOMAIN CodePoints : CodePoints[i] = c

\* a < b on str: at the first character that differs the smaller code point
\* decides, and a proper prefix is smaller
Less(a, b) ==
    LET common == {i \in 1..Len(a) : i <= Len(b) /\ \A j \in 1..i : a[j] = b[j]}
        k == Cardinality(common) + 1
    IN  IF k > Len(b) THEN FALSE
        ELSE IF k > Len(a) THEN TRUE
        ELSE ord(a[k]) < ord(b[k])

\* sorted(files)
RECURSIVE sorted(_)
sorted(names) ==
    IF names = {} THEN <<>>
    ELSE LET least == CHOOSE n \in names : \A m \in names \ {n} : Less(n, m)
         IN  <<least>> \o sorted(names \ {least})

USR_SHARE == <<"u", "s", "r", "/", "s", "h", "a", "r", "e", "/">>
USR_SHARE_DOC == USR_SHARE \o <<"d", "o", "c", "/">>
USR_SHARE_MAN == USR_SHARE \o <<"m", "a", "n", "/">>
USR_SHARE_LOCALE == USR_SHARE \o <<"l", "o", "c", "a", "l", "e", "/">>
LC_MESSAGES == <<"/", "L", "C", "_", "M", "E", "S", "S", "A", "G", "E", "S", "/">>
DOT_MO == <<".", "m", "o">>

\* str.startswith
startswith(name, prefix) ==
    Len(name) >= Len(prefix) /\ SubSeq(name, 1, Len(prefix)) = prefix

\* LOCALE_MATCHER.match(name): fnmatch's usr/share/locale/*/LC_MESSAGES/*.mo
\* against the whole name, a * standing for any characters
LOCALE_MATCHER(name) ==
    /\ startswith(name, USR_SHARE_LOCALE)
    /\ Len(name) >= Len(USR_SHARE_LOCALE) + Len(LC_MESSAGES) + Len(DOT_MO)
    /\ SubSeq(name, Len(name) - Len(DOT_MO) + 1, Len(name)) = DOT_MO
    /\ \E i \in (Len(USR_SHARE_LOCALE) + 1)..(Len(name) - Len(DOT_MO) - Len(LC_MESSAGES) + 1) :
        SubSeq(name, i, i + Len(LC_MESSAGES) - 1) = LC_MESSAGES

is_excluded_never(name) == FALSE

is_excluded(name) ==
    \/ startswith(name, USR_SHARE_DOC)
    \/ startswith(name, USR_SHARE_MAN)
    \/ LOCALE_MATCHER(name)

\* the entries a Filesystem can hold: name, type and body
ImageEntries ==
    {[name |-> <<"b", "i", "n">>, type |-> SYMTYPE, body |-> <<>>],
     [name |-> <<"i", "n", "i", "t">>, type |-> REGTYPE, body |-> <<1, 2, 3>>],
     [name |-> <<"u", "s", "r">>, type |-> DIRTYPE, body |-> <<>>],
     [name |-> <<"u", "s", "r", ".", "x">>, type |-> REGTYPE, body |-> <<1>>],
     [name |-> USR_SHARE \o <<"d", "o", "c">>, type |-> DIRTYPE, body |-> <<>>],
     [name |-> USR_SHARE \o <<"d", "o", "c", "-", "b">>, type |-> REGTYPE, body |-> <<1, 2>>],
     [name |-> USR_SHARE_DOC \o <<"a">>, type |-> REGTYPE, body |-> <<1>>],
     [name |-> USR_SHARE_DOC \o <<"a">>, type |-> DIRTYPE, body |-> <<>>],
     [name |-> USR_SHARE_MAN \o <<"m">>, type |-> SYMTYPE, body |-> <<>>],
     [name |-> USR_SHARE_LOCALE \o <<"d", "e">> \o LC_MESSAGES \o <<"a">> \o DOT_MO,
      type |-> REGTYPE, body |-> <<1>>],
     [name |-> USR_SHARE_LOCALE \o <<"d", "e">> \o LC_MESSAGES \o <<"a", ".", "p", "o">>,
      type |-> REGTYPE, body |-> <<1>>]}

InitWi ==
    /\ IdleButWi
    /\ \E held \in SUBSET ImageEntries :
        /\ Cardinality(held) <= MaxFiles
        /\ \A e, f \in held : e.name = f.name => e = f
        /\ _files = [n \in {e.name : e \in held} |->
                        LET e == CHOOSE e \in held : e.name = n
                        IN  [info |-> [TarInfo(n) EXCEPT !.type = e.type,
                                                         !.size = Len(e.body)],
                             fh |-> e.body]]
    /\ fsErr = NoError /\ nops = 0 /\ last = NoCall
    /\ wi_names = <<>> /\ wi_out = <<>>
    /\ wi_at = "call"

\* write_file(out_fh, info, fh): nothing for an excluded entry that is not a
\* directory; otherwise the header, the body and the padding of its last block
write_file(info, fh) ==
    IF info.type # DIRTYPE /\ is_excluded(info.name) THEN <<>>
    ELSE tobuf(info) \o DataBlocks(fh)

\* for name in sorted(files)
WiSorted ==
    /\ wi_at = "call"
    /\ wi_names' = sorted(DOMAIN _files)
    /\ wi_at' = "loop"
    /\ UNCHANGED wi_out
    /\ UNCHANGED <<fsVars, notWi>>

\* write_file(out_fh, *files[name])
WiWriteFile ==
    /\ wi_at = "loop"
    /\ wi_names # <<>>
    /\ wi_out' = wi_out \o write_file(_files[Head(wi_names)].info, _files[Head(wi_names)].fh)
    /\ wi_names' = Tail(wi_names)
    /\ UNCHANGED wi_at
    /\ UNCHANGED <<fsVars, notWi>>

\* the loop ends and write_image returns
WiReturn ==
    /\ wi_at = "loop"
    /\ wi_names = <<>>
    /\ wi_at' = "returned"
    /\ UNCHANGED <<wi_names, wi_out>>
    /\ UNCHANGED <<fsVars, notWi>>

NextWi == WiSorted \/ WiWriteFile \/ WiReturn

SpecWi == InitWi /\ [][NextWi]_vars

----------------------------------------------------------------------------
(* Properties of the Filesystem *)

Prefixes(N) == {SubSeq(N, 1, k) : k \in 1..(Len(N) - 1)}

\* what the build leaves: whether it aborted and, when it did not, the entries
Left(files, err) ==
    [aborted |-> err # NoError, files |-> IF err = NoError THEN files ELSE <<>>]

\* C5: once every package is unpacked (or the build aborted), the Filesystem
\* and the abort are those of every other order of the same packages.
C5_OrderIndependent ==
    (_files # <<>> /\ (deb_names = {} \/ fsErr # NoError)) =>
        \A o \in Orders(Range(unpacked) \cup deb_names) :
            LET r == create_filesystem(o)
            IN  Left(r.files, r.err) = Left(_files, fsErr)

\* C6: no stored name has a proper path prefix that is a stored symlink.
C6_NoSymlinkPrefix ==
    \A N \in DOMAIN _files : \A P \in Prefixes(N) :
        ~(P \in DOMAIN _files /\ _files[P].info.type = SYMTYPE)

\* The entry of a call as add compares it: canonical name, no owner names
Canonical(fs, ti) ==
    [ti EXCEPT !.name = _build_path(fs, ti.name), !.uname = "", !.gname = ""]

SameUseful(a, b) ==
    /\ a.name = b.name /\ a.mode = b.mode /\ a.uid = b.uid /\ a.gid = b.gid
    /\ a.size = b.size /\ a.type = b.type /\ a.pax_headers = b.pax_headers

\* the step is a call of add whose canonical name N is already stored
CallOnStored(N) ==
    /\ nops' = nops + 1
    /\ N = _build_path(_files, last'.ti.name)
    /\ N \in DOMAIN _files

\* C7: an add under a stored name with equal useful attributes raises
\* nothing, sets the stored mtime to the maximum of the two and changes
\* nothing else: content, link target and every other entry stay.
C7_EqualAddMergesMtime ==
    [][\A N \in DOMAIN _files :
        (CallOnStored(N) /\ SameUseful(Canonical(_files, last'.ti), _files[N].info))
        => /\ fsErr' = NoError
           /\ _files' = [_files EXCEPT ![N].info.mtime =
                             Max(_files[N].info.mtime, last'.ti.mtime)]]_vars

C7_Witness ==
    /\ last.outcome = "merged"
    /\ _files[last.name].info.mtime > last.ti.mtime
    /\ _files[last.name].fh # last.fh
    /\ last.ti.name # last.name

\* C8: an add under a stored name with different useful attributes raises
\* RuntimeError naming the canonical path, the stored entry keeps its
\* attributes and content, and no call follows the exception.
C8_ConflictRaisesCanonical ==
    [][/\ \A N \in DOMAIN _files :
            (CallOnStored(N) /\ ~SameUseful(Canonical(_files, last'.ti), _files[N].info))
            => /\ fsErr' = RuntimeError(N)
               /\ DOMAIN _files' = DOMAIN _files
               /\ \A M \in DOMAIN _files :
                    /\ _files'[M].fh = _files[M].fh
                    /\ [_files'[M].info EXCEPT !.mtime = 0]
                         = [_files[M].info EXCEPT !.mtime = 0]
       /\ fsErr # NoError => UNCHANGED vars]_vars

C8_Witness ==
    /\ last.outcome = "conflict"
    /\ last.ti.name = BINTOOL
    /\ fsErr = RuntimeError(USRBINTOOL)
    /\ _files[USRBINTOOL].info.mode # last.ti.mode

\* C9: a second add of the entry that the previous add took without an
\* exception raises nothing and leaves the Filesystem as it was.
C9_ReaddIdempotent ==
    [][(/\ nops' = nops + 1
        /\ last.outcome \in {"stored", "merged", "dropped"}
        /\ last'.ti = last.ti /\ last'.fh = last.fh)
       => (fsErr' = NoError /\ _files' = _files)]_vars

----------------------------------------------------------------------------
(* Properties of the signature verifier *)

IsLine(l, opcode) == l.prefix /\ l.op # <<>> /\ l.op[1] = opcode

\* lines i..j hold no NEWSIG line and hold a GOODSIG and a VALIDSIG line
QualifyingRun(lines, i, j) ==
    /\ \A k \in i..j : ~IsLine(lines[k], "NEWSIG")
    /\ \E k \in i..j : IsLine(lines[k], "GOODSIG")
    /\ \E k \in i..j : IsLine(lines[k], "VALIDSIG")

SomeRunQualifies(lines) ==
    \E i \in DOMAIN lines : \E j \in i..Len(lines) : QualifyingRun(lines, i, j)

GpgEnded == sig_info \in {"accepted", "RuntimeError", "raised ValueError"}

\* C2: gpg_verify accepts a stream only when one run of its lines without a
\* NEWSIG line holds both a GOODSIG and a VALIDSIG line: a GOODSIG of one
\* run and a VALIDSIG of another never count together.
C2_AcceptsOnlyQualifyingRun ==
    sig_info = "accepted" => SomeRunQualifies(stdout)

\* C2, the other direction: a stream with a qualifying run is accepted.
C2_QualifyingRunAccepted ==
    GpgEnded /\ SomeRunQualifies(stdout) => sig_info = "accepted"

----------------------------------------------------------------------------
(* Properties of the HTTP fetcher *)

\* C10: a fetch that follows no redirect sends at most two requests: the
\* request and one retry after a disconnect.
C10_AtMostOneRetry ==
    follow_redirects = 1 => Len(requests) <= 2

\* C11: one fetch follows at most one 302: every URL is requested once, plus
\* once per dropped connection; a 302 from the redirect target is returned
\* and both callers raise RuntimeError(302), with no request after it.
C11_OneRedirect ==
    /\ follow_redirects \in {0, 1}
    /\ Len(requests) <= (1 - follow_redirects) + 1 + disconnects
    /\ \A name \in {"download_file", "download_cached"} :
        /\ response = <<name, RuntimeError(<<302>>)>> =>
                follow_redirects = 0 /\ requests[Len(requests)] = url
        /\ (response[1] = name /\ follow_redirects = 0 /\ disconnects = 0) =>
                Len(requests) = 2

\* the Location of the first 302 was the URL itself, the URL answered 302
\* again, and download_cached raised
C11_Witness ==
    /\ response = <<"download_cached", RuntimeError(<<302>>)>>
    /\ disconnects = 0
    /\ Len(requests) = 2 /\ requests[1] = requests[2]

\* the position of the last configured suite that holds the name
LastHolder(name) ==
    CHOOSE k \in DOMAIN ConfiguredSuites :
        /\ name \in DOMAIN indexes[ConfiguredSuites[k]]
        /\ \A j \in (k + 1)..Len(ConfiguredSuites) :
                name \notin DOMAIN indexes[ConfiguredSuites[j]]

\* C14: the merged index holds, for every name some suite holds, the whole
\* record of the last configured suite that holds it, and no other name,
\* whatever order the workers returned in.
C14_LastSuiteWins ==
    collected = Len(ConfiguredSuites) =>
        /\ DOMAIN packages_info = UNION {DOMAIN indexes[su] : su \in Range(ConfiguredSuites)}
        /\ \A name \in DOMAIN packages_info :
                packages_info[name] = indexes[ConfiguredSuites[LastHolder(name)]][name]

\* the workers returned in the reverse of the configured order, and a name
\* is held by the first suite with a Depends field and by the last without
C14_Witness ==
    /\ collected = Len(ConfiguredSuites)
    /\ finished = <<"security", "updates", "stable">>
    /\ "apt" \in DOMAIN indexes["stable"] /\ "apt" \in DOMAIN indexes["security"]
    /\ "Depends" \in DOMAIN indexes["stable"]["apt"]
    /\ "Depends" \notin DOMAIN indexes["security"]["apt"]
    /\ "Depends" \notin DOMAIN packages_info["apt"]

----------------------------------------------------------------------------
(* Properties of the dependency resolver *)

\* the names a record's clauses choose: the first alternative of each
Chosen(info) ==
    {clause[1] : clause \in {c \in Range(get(info, "Depends") \o get(info, "Pre-Depends")) :
                                c # <<>>}}

\* the least set of names with a record that holds the seeds and the chosen
\* names of its records
RECURSIVE Closure(_)
Closure(R) ==
    LET more == R \cup ((UNION {Chosen(packages_index[n]) : n \in R})
                            \cap DOMAIN packages_index)
    IN  IF more = R THEN R ELSE Closure(more)

Needed ==
    Closure(({n \in DOMAIN packages_index : packages_index[n]["Priority"] = "required"}
             \cup SeedNames5) \cap DOMAIN packages_index)

----------------------------------------------------------------------------
(* Properties of output_filter *)

\* the entries of a stream as a reader of headers sees them: the fields of
\* each header and the data blocks that follow it
RECURSIVE Entries(_)
Entries(blocks) ==
    IF blocks = <<>> \/ Head(blocks).kind # "hdr" THEN <<>>
    ELSE LET n == roundup_block(Head(blocks).ti.size) \div BLOCKSIZE
         IN  <<[ti |-> frombuf(Head(blocks)), data |-> SubSeq(blocks, 2, n + 1)]>>
             \o Entries(SubSeq(blocks, n + 2, Len(blocks)))

RECURSIVE BlocksOf(_)
BlocksOf(entries) ==
    IF entries = <<>> THEN 0
    ELSE 1 + Len(Head(entries).data) + BlocksOf(Tail(entries))

NotDropped(entry) == entry.ti.name \notin {DOCKERENV, RESOLV_CONF}

Timeless(entry) == [entry EXCEPT !.ti.mtime = 0]

\* C15: the output holds the input's entries other than .dockerenv and
\* etc/resolv.conf, with their bodies and in their order, then one
\* etc/resolv.conf symlink to the stub resolver, then two zero blocks.
C15_FilteredStream ==
    filtering = "flushed" =>
        LET passed == SelectSeq(Entries(exported), NotDropped)
            written == Entries(out_fh)
        IN  /\ Len(written) = Len(passed) + 1
            /\ \A k \in DOMAIN passed :
                    /\ Timeless(written[k]) = Timeless(passed[k])
                    /\ NotDropped(written[k])
            /\ written[Len(written)] =
                    [ti |-> symlinkInfo(RESOLV_CONF, STUB_RESOLV_CONF), data |-> <<>>]
            /\ Len(out_fh) = BlocksOf(written) + 2
            /\ SubSeq(out_fh, Len(out_fh) - 1, Len(out_fh)) = <<ZeroBlock, ZeroBlock>>

\* the export held .dockerenv, a real etc/resolv.conf with a body and a
\* file that is passed through with its body
C15_Witness ==
    /\ filtering = "flushed"
    /\ \E i, j, k \in DOMAIN Entries(exported) :
        /\ Entries(exported)[i].ti.name = DOCKERENV
        /\ Entries(exported)[j].ti.name = RESOLV_CONF /\ Entries(exported)[j].data # <<>>
        /\ Entries(exported)[k].ti.name = <<"etc", "passwd">> /\ j < k

\* the name of the k-th entry as a reader of the archive sees it: the one
\* of the extended header before it, when there is one
MemberName(entries, k) ==
    IF k > 1 /\ entries[k - 1].ti.type = XHDTYPE
    THEN entries[k - 1].data[1].bytes[1]
    ELSE entries[k].ti.name

\* C16: every entry written has the mtime the Filesystem stores under its
\* name, and 0 when the Filesystem has no entry of that name.
C16_MtimeFromFilesystem ==
    LET written == Entries(out_fh)
    IN  \A k \in DOMAIN written :
            written[k].ti.type # XHDTYPE =>
                written[k].ti.mtime =
                    IF MemberName(written, k) \in DOMAIN _files
                    THEN _files[MemberName(written, k)].info.mtime
                    ELSE 0

----------------------------------------------------------------------------
(* Properties of the cache *)

\* C12: what a concurrent reader sees of a destination that download_cached
\* is storing a 200 body to is the file as it was before (or no file), or
\* the whole new body with the mtime of the response's Date.
C12_ReadersSeeWholeFiles ==
    observed # <<>> =>
        observed[1] \in {writer.before, <<[bytes |-> writer.ret, mtime |-> "Date"]>>}

\* C13: the run after one that ended on a checksum mismatch takes the
\* file's body from upstream, not from what the failed run left in the cache.
C13_RefetchAfterMismatch ==
    \A i \in 2..Len(runlog) :
        runlog[i - 1].outcome = "mismatch" => runlog[i].source = "upstream"

----------------------------------------------------------------------------
(* Properties of the package downloader *)

\* C1: every destination download_files yields holds bytes whose SHA-256 is
\* the SHA256 of its package record, cached destinations included.
C1_EmittedMatchesRecord ==
    \A i \in DOMAIN emitted :
        sha256(FileAt(emitted[i])) = Info(emitted[i]).SHA256

\* C19: a destination that was not in the cache when download_files began
\* names a file only when its future was collected, the temporary file holds
\* the whole body the mirror sent and its SHA-256 is the record's SHA256; a
\* future that raised, or whose digest differs, has no file under its
\* destination, and neither has one that was not collected yet.
C19_LinkedAfterDigestCheck ==
    \A d \in DOMAIN futures :
        /\ d \in DOMAIN disk =>
                /\ disk[d] = "linked"
                /\ futures[d].state = "collected"
                /\ futures[d].temp = Body(d, served[d])
                /\ sha256(futures[d].temp) = Info(d).SHA256
        /\ futures[d].digest # Info(d).SHA256 => d \notin DOMAIN disk
        /\ futures[d].state # "collected" => d \notin DOMAIN disk

\* one .deb was linked; the build ended on a worker that lost its connection
\* with part of the body in its temporary file, and a third download stopped
\* short is still to be collected
C19_Witness ==
    \E d, e, f \in DOMAIN futures :
        /\ d \in DOMAIN disk /\ disk[d] = "linked"
        /\ dlErr = IncompleteRead
        /\ served[e] # "404" /\ futures[e].temp # <<>> /\ futures[e].digest = ""
        /\ served[f] = "200 short" /\ futures[f].state = "done"
        /\ e \notin DOMAIN disk /\ f \notin DOMAIN disk

\* C20: canonicalization reaches a fixed point for every entry added in
\* every reachable Filesystem: no add ends because resolve never returns.
C20_CanonicalizationEnds ==
    last.outcome # "recursion" /\ fsErr # RecursionError

----------------------------------------------------------------------------
(* Properties of the repository client *)

\* gpgv reported a good and valid signature of the suite's Release.gpg over
\* the suite's Release
Accepted(s) ==
    /\ release[s] # <<>>
    /\ release_gpg[s] # <<>>
    /\ _gpg_verify(gpgv(Keyring, release_gpg[s][1], release[s][1])).out = "return"

\* C3: nothing is fetched through a suite's repo_fetch unless gpg_verify
\* accepted that suite's Release against its Release.gpg, and no .deb
\* download is started and no entry is in the Filesystem unless the
\* verification of every configured suite succeeded.
C3_VerifiedBeforeUse ==
    /\ \A s \in SuiteSet : fetched[s] # {} => Accepted(s)
    /\ (started # {} \/ _files # <<>>) => \A s \in SuiteSet : Accepted(s)
    /\ (\E s \in SuiteSet : pc[s].at = "raised" /\ phase # "submitting") => phase = "aborted"

\* one suite was verified and fetched from, the verification of the other
\* failed, and the build has aborted
C3_Witness ==
    /\ phase = "aborted"
    /\ \E s, t \in SuiteSet :
        /\ fetched[s] # {}
        /\ pc[t].err = "RuntimeError" /\ release_gpg[t] # <<>> /\ ~Accepted(t)

\* the Release of suite s, accepted by gpg_verify, lists for the path the
\* SHA-256 of the bytes
Listed(s, path, bytes) ==
    /\ Accepted(s)
    /\ LET sha256sums == get_sha256sums(release[s][1]).sums
       IN  path \in DOMAIN sha256sums /\ sha256sums[path] = sha256(bytes)

\* C4: the bytes repo_fetch returned, and the bytes package records were
\* parsed from, have the SHA-256 the verified Release lists for their path;
\* after a mismatch repo_fetch has returned nothing and nothing was parsed.
C4_ReturnedBytesMatchRelease ==
    \A s \in SuiteSet :
        /\ repo_contents[s] # <<>> =>
                Listed(s, repo_contents[s][1].path, repo_contents[s][1].bytes)
        /\ parsed[s] # <<>> => Listed(s, parsed[s][1].path, parsed[s][1].from)
        /\ pc[s].err = "checksum" => repo_contents[s] = <<>> /\ parsed[s] = <<>>

\* one suite's index was returned and parsed, the other's did not match
C4_Witness ==
    \E s, t \in SuiteSet :
        /\ parsed[s] # <<>>
        /\ pc[t].err = "checksum"
        /\ fetched[t] # {}

\* root.tar is what it was before the build: the earlier build's file, or
\* no file
RootTarUnchanged ==
    IF "previous" \in DOMAIN inode_bytes
    THEN /\ "root.tar" \in DOMAIN dir_names
         /\ dir_names["root.tar"] = "previous"
         /\ inode_bytes["previous"] = PreviousBuild
    ELSE "root.tar" \notin DOMAIN dir_names

\* C17: import, create, start and export are started in that order, each
\* after the one before it exited with status 0; root.tar changes only
\* after all four exited with status 0 and every byte of the filtered
\* stream, its end of archive included, is in the file; after a non-zero
\* exit the build has aborted, root.tar is what it was and no sha256: line
\* was printed.
C17_PipelineOrderAndInstall ==
    /\ launched = SubSeq(<<"import", "create", "start", "export">>, 1, Len(launched))
    /\ \A i \in 2..Len(launched) : Len(statuses) >= i - 1 /\ statuses[i - 1] = 0
    /\ ~RootTarUnchanged =>
            /\ statuses = <<0, 0, 0, 0>>
            /\ hashed # <<>> /\ hashed[Len(hashed)] = EndOfArchive
            /\ inode_bytes[dir_names["root.tar"]] = hashed
    /\ (\E i \in DOMAIN statuses : statuses[i] # 0) =>
            /\ at_step \in BuildErrors
            /\ RootTarUnchanged
            /\ printed = <<>>
    /\ printed # <<>> => ~RootTarUnchanged /\ printed = <<<<"sha256:", sha256(hashed)>>>>

\* docker export exited non-zero after the whole stream was filtered, with a
\* root.tar of an earlier build in place
C17_Witness ==
    /\ statuses = <<0, 0, 0, 1>>
    /\ at_step = "raised RuntimeError"
    /\ Len(hashed) > 1 /\ hashed[Len(hashed)] = EndOfArchive
    /\ "previous" \in DOMAIN inode_bytes
    /\ TempName \notin DOMAIN dir_names

-----------------------------------------------------------------------------
(* Properties of unpack_ar *)

\* the name without one leading "./"; "." is the archive root "./", whose
\* trailing slash tarfile has removed
WithoutDotSlash(name) ==
    IF name = <<".">> THEN <<>>
    ELSE IF Len(name) >= 2 /\ name[1] = "." /\ name[2] = "/"
    THEN SubSeq(name, 3, Len(name))
    ELSE name

\* the items yielded from the data archive, in order
FromData == SelectSeq(yielded, LAMBDA item : item.from = "data.tar")

\* C21: every data.tar member is yielded, and recorded in the manifest,
\* under its archive name without one leading "./" and nothing else removed.
C21_OnePrefixRemoved ==
    /\ \A i \in DOMAIN FromData :
        FromData[i].name = WithoutDotSlash(FromData[i].archive)
    /\ Len(manifest) = Len(FromData)
    /\ \A i \in DOMAIN manifest :
        manifest[i] = <<"/">> \o (IF WithoutDotSlash(FromData[i].archive) = <<>> THEN <<".">>
                                  ELSE WithoutDotSlash(FromData[i].archive)) \o <<"\n">>

\* the line of the .list for an entry yielded under the name
ListLine(name) == <<"/">> \o (IF name = <<>> THEN <<".">> ELSE name) \o <<"\n">>

\* the members of the package's data archive, in archive order
DataEntries ==
    Concat([j \in DOMAIN deb |-> IF deb[j].name = "data.tar" THEN deb[j].tar ELSE <<>>])

HasControl == \E i \in DOMAIN deb : deb[i].name = "control.tar"

\* C22: with a control archive, the .list is the last item yielded, after
\* every entry of the data archive, and its body is one line per entry in
\* archive order, "/" name newline, "/." for the empty name; the empty name
\* is no entry of the Filesystem; without a control archive unpack_ar raises
\* and yields no .list.
C22_ListLastAndComplete ==
    /\ \A i \in DOMAIN yielded :
        yielded[i].from = "list" =>
            /\ i = Len(yielded) /\ ar_at = "returned" /\ HasControl
            /\ yielded[i].name = ControlPrefix \o <<"list">>
            /\ yielded[i].body = Concat([k \in DOMAIN FromData |-> ListLine(FromData[k].name)])
            /\ [k \in DOMAIN FromData |-> FromData[k].archive]
                    = [k \in DOMAIN DataEntries |-> DataEntries[k].name]
    /\ ar_at = "returned" => yielded # <<>> /\ yielded[Len(yielded)].from = "list"
    /\ <<>> \notin DOMAIN _files
    /\ DOMAIN _files = {PathOf(yielded[i].name) : i \in DOMAIN yielded} \ {<<>>}
    /\ ~HasControl => ar_at # "returned"
    /\ ar_at = "raised RuntimeError" => ~HasControl /\ ar_rest = <<>>

\* a package whose data archive holds the root and a file, read to its end
C22_Witness ==
    /\ ar_at = "returned"
    /\ Len(FromData) = MaxMembers
    /\ \E i \in DOMAIN FromData : FromData[i].name = <<>>
    /\ \E i \in DOMAIN FromData : FromData[i].name = <<"a", "/", "b">>

-----------------------------------------------------------------------------
(* Properties of packages_dict *)

\* the fields of a PackageRecord
Recognized ==
    {"Package", "Filename", "Version", "Priority", "SHA256", "Depends", "Pre-Depends",
     "Multi-Arch", "Architecture"}

\* the stanzas of the index: the runs of lines between blank lines
RECURSIVE Paragraphs(_, _)
Paragraphs(lines, run) ==
    IF lines = <<>> THEN (IF run = <<>> THEN <<>> ELSE <<run>>)
    ELSE IF Head(lines) = <<>>
    THEN (IF run = <<>> THEN <<>> ELSE <<run>>) \o Paragraphs(Tail(lines), <<>>)
    ELSE Paragraphs(Tail(lines), Append(run, Head(lines)))

\* the fields a stanza carries, the last value of a repeated field
Carried(stanza) ==
    [k \in {stanza[i][1] : i \in DOMAIN stanza} |->
        LET at == CHOOSE i \in DOMAIN stanza :
                    stanza[i][1] = k /\ \A j \in DOMAIN stanza : stanza[j][1] = k => j <= i
        IN  stanza[at][2]]

\* C23: the record packages_dict returns under a name holds, of the last
\* stanza of that name, every recognized field it carries with its value,
\* and no other field.
C23_RecognizedFieldsRetained ==
    pd_at = "returned" =>
        LET stanzas == Paragraphs(index_lines, <<>>)
        IN  \A i \in DOMAIN stanzas :
                LET fields == Carried(stanzas[i])
                IN  ("Package" \in DOMAIN fields
                     /\ \A j \in DOMAIN stanzas :
                            (j > i /\ "Package" \in DOMAIN Carried(stanzas[j]))
                                => Carried(stanzas[j])["Package"] # fields["Package"])
                    => /\ fields["Package"] \in DOMAIN pd_ret
                       /\ pd_ret[fields["Package"]]
                            = [k \in DOMAIN fields \cap Recognized |-> fields[k]]

-----------------------------------------------------------------------------
(* Properties of write_image *)

\* the names the image leaves out when their entry is not a directory
LeftOut ==
    {USR_SHARE_DOC \o <<"a">>, USR_SHARE_MAN \o <<"m">>,
     USR_SHARE_LOCALE \o <<"d", "e">> \o LC_MESSAGES \o <<"a">> \o DOT_MO}

\* C24: the entries written are, in strictly ascending order of name and
\* each once, every directory of the Filesystem and every other entry whose
\* name is not excluded, each with its body; nothing else is written, no
\* end-of-archive block either.
C24_SortedImage ==
    LET written == Entries(wi_out)
    IN  /\ \A i, j \in DOMAIN written :
            i < j => /\ written[i].ti.name # written[j].ti.name
                     /\ \E k \in 1..(Len(written[i].ti.name) + 1) :
                            /\ \A c \in 1..(k - 1) :
                                    /\ c <= Len(written[j].ti.name)
                                    /\ written[i].ti.name[c] = written[j].ti.name[c]
                            /\ k <= Len(written[j].ti.name)
                            /\ \/ k > Len(written[i].ti.name)
                               \/ ord(written[i].ti.name[k]) < ord(written[j].ti.name[k])
        /\ BlocksOf(written) = Len(wi_out)
        /\ \A k \in DOMAIN wi_out : wi_out[k].kind # "zero"
        /\ \A k \in DOMAIN written :
            /\ written[k].ti.name \in DOMAIN _files
            /\ written[k].ti = _files[written[k].ti.name].info
            /\ written[k].data = DataBlocks(_files[written[k].ti.name].fh)
            /\ written[k].ti.type = DIRTYPE \/ written[k].ti.name \notin LeftOut
        /\ wi_at = "returned" =>
            {written[k].ti.name : k \in DOMAIN written}
                = {n \in DOMAIN _files :
                        _files[n].info.type = DIRTYPE \/ n \notin LeftOut}

\* a full Filesystem with a directory under usr/share/doc/ and an excluded
\* entry that is no directory: all but the latter were written
C24_Witness ==
    /\ wi_at = "returned"
    /\ Cardinality(DOMAIN _files) = MaxFiles
    /\ \E n \in DOMAIN _files : n \in LeftOut /\ _files[n].info.type # DIRTYPE
    /\ \E n \in DOMAIN _files : n \in LeftOut /\ _files[n].info.type = DIRTYPE
    /\ Len(Entries(wi_out)) = MaxFiles - 1

====
